---- MODULE Spec2Model ----
(***************************************************************************)
(* Traffic-control layer of the TechSync backend: the admission queue      *)
(* (RequestQueue), the memory monitor and the rate limiters of             *)
(* backend/middleware/rateLimitAnalytics.js (which also holds              *)
(* stabilityMiddleware.js) and backend/middleware/smartRateLimit.js.       *)
(***************************************************************************)
EXTENDS Integers, Sequences, FiniteSets, TLC

\* ---------------------------------------------------------------- bounds
\* Number of request objects the admission queue sees in one run.
NumReq == 4
\* The constructor argument of RequestQueue (30 in the deployed instance).
maxConcurrent == 2

\* Largest hit count the store of a rate limiter reaches in one window.
MaxRequests == 8
\* Number of times the clock is advanced in one run of a rate limiter.
MaxAdvances == 1
\* The max option of the limiters built for a test with the exported factories.
TestMax == 2

\* Number of analytics.logRequest calls in one run of the analytics store.
MaxLogs == 2
\* Number of times the store's clock jumps (by an hour or a day) in one run.
MaxPasses == 1
\* Longest hourlyStats series kept in one run.
MaxRollups == 1
\* Longest queue the health check is asked about.
MaxQueueLen == 22

Reqs == 1..NumReq

Min(a, b) == IF a < b THEN a ELSE b
Max(a, b) == IF a > b THEN a ELSE b

\* ------------------------------------------------------------- variables
VARIABLES
  activeRequests,   \* RequestQueue.activeRequests
  queue,            \* RequestQueue.queue, a sequence of request ids
  isProcessing,     \* RequestQueue.isProcessing
  isUnderPressure,  \* MemoryMonitor.isUnderPressure
  immediates,       \* number of pending setImmediate(() => processQueue())
  isAdmin,          \* requestItem.isAdmin of each queued request
  phase,            \* "new" | "queued" | "inflight" | "done" | "rejected"
  via,              \* which cleanup is attached: "none"|"bypass"|"direct"|"drain"
  timer,            \* the 10 s timeout of a queued request is armed
  ev,               \* response events emitted so far: "none" | "ended" | "closed"
  admits,           \* number of times next() was called for the request
  resp,             \* response written by the queue itself, NoResp if none
  quiet,            \* no completion, timeout, disconnect or pressure so far
  lim,              \* the rate limiter instance the requests go through
  now,              \* Date.now(), in ms
  advances,         \* number of clock advances so far
  hits,             \* the store's hit count of the client's key
  resetTime,        \* when the client's current window ends, in ms
  last,             \* the latest request and what the limiter did with it
  calm,             \* of a limiter whose max is a function: per path kind,
                    \* max(req) of the latest counted request served while
                    \* memory was not under pressure (0: none)
  win,              \* bookkeeping of the client's current window
  analytics,        \* the RateLimitAnalytics instance
  clock,            \* Date.now() as the analytics store reads it, in ms
  obs,              \* the latest logRequest call, the time of the first one,
                    \* the number of clock jumps so far, the latest
                    \* getAnalytics answer, whether the last memory sample
                    \* threw, and the last manual block/unblock action
  health            \* the inputs and the answer of one healthCheck call

qvars == <<activeRequests, queue, isProcessing, isUnderPressure, immediates,
           isAdmin, phase, via, timer, ev, admits, resp, quiet>>

lvars == <<lim, now, advances, hits, resetTime, last, calm, win>>

svars == <<analytics, clock, obs, health>>

vars == <<qvars, lvars, svars>>

\* ------------------------------------------------------------ request paths
\* A path is the tuple of its segments: "/api/admin/users" is
\* <<"api", "admin", "users">>.  String.includes('/x') is modelled as
\* "some segment is x", includes('/x/y') as two consecutive segments.
HealthPath == <<"health">>
ApiHealthPath == <<"api", "health">>
LogoutPath == <<"api", "auth", "logout">>
AdminUsersPath == <<"api", "admin", "users">>
AnalyticsPath == <<"api", "analytics", "traffic">>
ProjectsPath == <<"api", "projects">>
LoginUrl == <<"api", "auth", "login">>
RegisterUrl == <<"api", "auth", "register">>
SuggestionsUrl == <<"api", "suggestions">>

QueuePaths == {ApiHealthPath, LogoutPath, AdminUsersPath, ProjectsPath}

IncludesSeg(p, s) == \E i \in DOMAIN p : p[i] = s
IncludesSeg2(p, s, t) == \E i \in DOMAIN p : (i + 1) \in DOMAIN p /\ p[i] = s /\ p[i + 1] = t

\* Mutant of IsBypassPath: the logout test is left out.
IsBypassPathNoLogout(p) == p = HealthPath \/ p = ApiHealthPath

\* RequestQueue.middleware: the paths that skip the queue.
IsBypassPath(p) ==
  p = HealthPath \/ p = ApiHealthPath \/ IncludesSeg2(p, "auth", "logout")

\* req.path.includes('/admin') || req.path.includes('/analytics')
IsAdminPath(p) == IncludesSeg(p, "admin") \/ IncludesSeg(p, "analytics")

\* ------------------------------------------------------------ memory monitor
maxMemoryPercent == 85
HeapSamples == {50, 85, 86, 95}

\* MemoryMonitor.startMonitoring: the flag computed from one sample.
PressureOf(heapUsedPercent) == heapUsedPercent > maxMemoryPercent

\* ------------------------------------------------------------ admission queue
ResEvents == {"finish", "close", "error"}
NoResp == [status |-> 0, code |-> "none"]
ServerBusy == [status |-> 503, code |-> "SERVER_BUSY"]

\* The mutable state processQueue and the handlers work on, as one record.
Cur ==
  [activeRequests |-> activeRequests, queue |-> queue,
   isProcessing |-> isProcessing, immediates |-> immediates,
   isAdmin |-> isAdmin, phase |-> phase, via |-> via, timer |-> timer,
   ev |-> ev, admits |-> admits, resp |-> resp]

Install(s) ==
  /\ activeRequests' = s.activeRequests
  /\ queue' = s.queue
  /\ isProcessing' = s.isProcessing
  /\ immediates' = s.immediates
  /\ isAdmin' = s.isAdmin
  /\ phase' = s.phase
  /\ via' = s.via
  /\ timer' = s.timer
  /\ ev' = s.ev
  /\ admits' = s.admits
  /\ resp' = s.resp

\* Mutant of HasCapacity: "<=" written for "<".
HasCapacityOffByOne(active) == active <= maxConcurrent /\ ~isUnderPressure

\* Mutant of HasCapacity: memory pressure is not looked at.
HasCapacityNoPressure(active) == active < maxConcurrent

\* "this.activeRequests < this.maxConcurrent && !memoryMonitor.isUnderPressure"
HasCapacity(active) == active < maxConcurrent /\ ~isUnderPressure

\* RequestQueue.processQueue.  The dequeued requestItem is dropped, so its
\* isAdmin field is forgotten.
ProcessQueue(s) ==
  IF s.isProcessing \/ Len(s.queue) = 0 THEN s
  ELSE IF ~HasCapacity(s.activeRequests) THEN s
  ELSE LET r == Head(s.queue) IN
       [s EXCEPT !.isProcessing = TRUE,
                 !.queue = Tail(s.queue),
                 !.timer[r] = FALSE,
                 !.isAdmin[r] = FALSE,
                 !.activeRequests = @ + 1,
                 !.phase[r] = "inflight",
                 !.via[r] = "drain",
                 !.admits[r] = @ + 1]

\* Mutant of Enqueue: admin requests appended like the others.
EnqueueNoPriority(q, r, p) == Append(q, r)

\* "if (isAdminRequest) this.queue.unshift(requestItem) else this.queue.push(requestItem)"
Enqueue(q, r, p) == IF IsAdminPath(p) THEN <<r>> \o q ELSE Append(q, r)

\* RequestQueue.middleware, for request r with req.path = p.
Middleware(s, r, p) ==
  IF IsBypassPath(p)
  THEN [s EXCEPT !.phase[r] = "inflight", !.via[r] = "bypass", !.admits[r] = @ + 1]
  ELSE IF HasCapacity(s.activeRequests)
  THEN [s EXCEPT !.activeRequests = @ + 1,
                 !.phase[r] = "inflight", !.via[r] = "direct", !.admits[r] = @ + 1]
  ELSE ProcessQueue([s EXCEPT !.queue = Enqueue(s.queue, r, p),
                              !.isAdmin[r] = IsAdminPath(p),
                              !.phase[r] = "queued",
                              !.timer[r] = TRUE])

\* The cleanup closure attached to res.on('finish' | 'close' | 'error').
Cleanup(s, r) ==
  CASE s.via[r] = "direct" ->
         ProcessQueue([s EXCEPT !.activeRequests = @ - 1])
    [] s.via[r] = "drain" ->
         [s EXCEPT !.activeRequests = @ - 1,
                   !.isProcessing = FALSE,
                   !.immediates = @ + 1]
    [] OTHER -> s

RemoveAt(q, i) == SubSeq(q, 1, i - 1) \o SubSeq(q, i + 1, Len(q))
IndexOf(q, r) == IF \E i \in DOMAIN q : q[i] = r
                 THEN CHOOSE i \in DOMAIN q : q[i] = r /\ \A j \in 1..(i - 1) : q[j] # r
                 ELSE 0
InQueue(q, r) == IndexOf(q, r) > 0

\* Mutant of OnTimeout: the 503 is sent but the entry is left in the queue.
OnTimeoutNoSplice(s, r) ==
  IF InQueue(s.queue, r)
  THEN [s EXCEPT !.timer[r] = FALSE, !.resp[r] = ServerBusy, !.phase[r] = "rejected",
                 !.ev[r] = "closed"]
  ELSE [s EXCEPT !.timer[r] = FALSE]

\* Mutant of OnTimeout: the callback answers nothing and leaves the entry queued.
OnTimeoutIgnored(s, r) == [s EXCEPT !.timer[r] = FALSE]

\* Mutant of OnTimeout: after the 503 the request is passed on with next().
OnTimeoutThenNext(s, r) ==
  IF InQueue(s.queue, r)
  THEN [s EXCEPT !.timer[r] = FALSE,
                 !.queue = RemoveAt(s.queue, IndexOf(s.queue, r)),
                 !.isAdmin[r] = FALSE,
                 !.resp[r] = ServerBusy,
                 !.phase[r] = "rejected",
                 !.ev[r] = "closed",
                 !.admits[r] = @ + 1]
  ELSE [s EXCEPT !.timer[r] = FALSE]

\* The setTimeout callback of a queued request.  The 503 response is written
\* and ends; no listener of the queue is attached to it.
OnTimeout(s, r) ==
  IF InQueue(s.queue, r)
  THEN [s EXCEPT !.timer[r] = FALSE,
                 !.queue = RemoveAt(s.queue, IndexOf(s.queue, r)),
                 !.isAdmin[r] = FALSE,
                 !.resp[r] = ServerBusy,
                 !.phase[r] = "rejected",
                 !.ev[r] = "closed"]
  ELSE [s EXCEPT !.timer[r] = FALSE]

\* ------------------------------------------------------------ rate limiters
OneMinute == 60 * 1000
FifteenMinutes == 15 * 60 * 1000
OneHour == 60 * 60 * 1000

Limiter(f, n, m, w) == [factory |-> f, name |-> n, max |-> m, windowMs |-> w]

\* rateLimitAnalytics.js: limiters, built by createAnalyticsLimiter.
AnalyticsLimiters ==
  {Limiter("analytics", "auth", 5, FifteenMinutes),
   Limiter("analytics", "register", 3, OneHour),
   Limiter("analytics", "api", 100, FifteenMinutes),
   Limiter("analytics", "public", 200, FifteenMinutes),
   Limiter("analytics", "admin", 50, FifteenMinutes)}

\* stabilityMiddleware.js: rateLimiters, built by createStabilityRateLimit.
StabilityLimiters ==
  {Limiter("stability", "auth", 15, FifteenMinutes),
   Limiter("stability", "admin", 200, FifteenMinutes),
   Limiter("stability", "api", 150, FifteenMinutes),
   Limiter("stability", "public", 250, FifteenMinutes)}

\* smartRateLimit.js: rateLimiters; auth is built by rateLimit itself.
SmartLimiters ==
  {Limiter("smart", "admin", 1000, FifteenMinutes),
   Limiter("smart", "api", 300, FifteenMinutes),
   Limiter("plain", "auth", 10, FifteenMinutes),
   Limiter("smart", "public", 500, FifteenMinutes)}

\* Limiters a caller builds with the exported factories and a small max.
TestLimiters ==
  {Limiter("analytics", "test", TestMax, FifteenMinutes),
   Limiter("smart", "test", TestMax, FifteenMinutes)}

DeployedLimiters == AnalyticsLimiters \cup StabilityLimiters \cup SmartLimiters
Limiters == DeployedLimiters \cup TestLimiters

\* app.js: the mount points of the limiters, app.use(mount, rateLimiters.x).
\* A limiter built for a test is mounted at the root, app.use(limiter).
RootMount == <<>>
ApiMount == <<"api">>
AdminMount == <<"api", "admin">>
AnalyticsMount == <<"api", "analytics">>

AppMounts(n) ==
  CASE n = "auth" -> {LoginUrl, RegisterUrl}
    [] n = "register" -> {RegisterUrl}
    [] n = "admin" -> {AdminMount, AnalyticsMount}
    [] n = "api" -> {ProjectsPath, ApiMount}
    [] n = "public" -> {SuggestionsUrl}
    [] OTHER -> {RootMount}

Urls == {HealthPath, ApiHealthPath, LogoutPath, LoginUrl, RegisterUrl,
         AdminUsersPath, AnalyticsPath, ProjectsPath, SuggestionsUrl}

IsPrefix(m, u) == Len(m) <= Len(u) /\ SubSeq(u, 1, Len(m)) = m

\* Express: inside app.use(mount, fn), req.path is the URL path with the mount
\* point stripped.
RelPath(u, m) == SubSeq(u, Len(m) + 1, Len(u))

\* The requests that reach limiter l: a URL and the mount point it matched.
Routes(l) == {r \in Urls \X AppMounts(l.name) : IsPrefix(r[2], r[1])}

\* What the claims need to know of a URL.
UrlKind(u) ==
  IF u = HealthPath \/ u = ApiHealthPath THEN "health"
  ELSE IF u = LogoutPath THEN "logout"
  ELSE IF IsPrefix(AdminMount, u) \/ IsPrefix(AnalyticsMount, u) THEN "admin"
  ELSE "other"

\* The Authorization header: absent, not a Bearer header, or "Bearer " + token.
Cred(h, k) == [header |-> h, token |-> k]
Tokens == {"", "garbage", "user", "moderator", "admin"}
Creds == {Cred("absent", ""), Cred("basic", "garbage")} \cup {Cred("bearer", k) : k \in Tokens}

\* jwt.verify(token, JWT_SECRET): the decoded role, or "throws".
JwtVerify(k) == IF k \in {"user", "moderator", "admin"} THEN k ELSE "throws"

\* Mutant of SmartSkip: the verification error is not caught.
SmartSkipUncaught(c) ==
  IF c.header # "bearer" THEN "count"
  ELSE IF c.token = "" THEN "count"
  ELSE IF JwtVerify(c.token) = "throws" THEN "throw"
  ELSE IF JwtVerify(c.token) \in {"admin", "moderator"} THEN "skip"
  ELSE "count"

\* Mutant of SmartSkip: every verified token is exempt, whatever its role.
SmartSkipAnyRole(c) ==
  IF c.header # "bearer" THEN "count"
  ELSE IF c.token = "" THEN "count"
  ELSE IF JwtVerify(c.token) = "throws" THEN "count"
  ELSE "skip"

\* Mutant of SmartSkip: nobody is exempt.
SmartSkipNobody(c) == "count"

\* createSmartLimiter: skip.  "skip" is return true, "count" is return false.
SmartSkip(c) ==
  IF c.header # "bearer" THEN "count"
  ELSE IF c.token = "" THEN "count"
  ELSE IF JwtVerify(c.token) = "throws" THEN "count"
  ELSE IF JwtVerify(c.token) \in {"admin", "moderator"} THEN "skip"
  ELSE "count"

\* createStabilityRateLimit: skip.
StabilitySkip(p) == IF p = HealthPath \/ p = ApiHealthPath THEN "skip" ELSE "count"

\* Mutant of AnalyticsSkip: the logging hook returns true.
AnalyticsSkipAll == "skip"

\* createAnalyticsLimiter: skip logs the request and returns false.
AnalyticsSkip == "count"

Skip(l, p, c) ==
  CASE l.factory = "analytics" -> AnalyticsSkip
    [] l.factory = "stability" -> StabilitySkip(p)
    [] l.factory = "smart" -> SmartSkip(c)
    [] OTHER -> "count"

\* Mutant of StabilityMax: memory pressure is ignored.
StabilityMaxNoPressure(optMax, p) ==
  LET m0 == IF optMax = 0 THEN 100 ELSE optMax
  IN IF IsAdminPath(p) THEN Max(m0 * 4, 200) ELSE m0

\* createStabilityRateLimit: max(req).
StabilityMax(optMax, p) ==
  LET m0 == IF optMax = 0 THEN 100 ELSE optMax
      m1 == IF isUnderPressure THEN m0 \div 2 ELSE m0
  IN IF IsAdminPath(p) THEN Max(m1 * 4, 200) ELSE m1

EffectiveMax(l, p) == IF l.factory = "stability" THEN StabilityMax(l.max, p) ELSE l.max

Round(a, b) == (2 * a + b) \div (2 * b)
Ceil(a, b) == (a + b - 1) \div b

\* Mutant of RejectionBody: retryAfter counts minutes, not seconds.
RejectionBodyMinutes(l) ==
  [success |-> FALSE, message |-> "options.message",
   retryAfter |-> Round(l.windowMs, 60 * 1000)]

\* The 429 body of each factory.
RejectionBody(l) ==
  CASE l.factory = "analytics" ->
         [success |-> FALSE, message |-> "options.message",
          retryAfter |-> Round(l.windowMs, 1000),
          type |-> "rate_limit_exceeded", limit |-> l.max, windowMs |-> l.windowMs]
    [] l.factory = "stability" ->
         [success |-> FALSE, message |-> "options.message.message",
          retryAfter |-> Ceil(l.windowMs, 1000),
          systemStatus |-> IF isUnderPressure THEN "under_pressure" ELSE "healthy"]
    [] l.factory = "smart" ->
         [success |-> FALSE, message |-> "Too many requests.",
          retryAfter |-> Ceil(l.windowMs, 1000)]
    [] OTHER -> [success |-> FALSE, message |-> "options.message.message"]

\* The store of express-rate-limit: one fixed window per key.
StoreIncrement(h, rt, t, w) ==
  IF h = 0 \/ t >= rt THEN [hits |-> 1, resetTime |-> t + w]
  ELSE [hits |-> h + 1, resetTime |-> rt]

\* express-rate-limit: the request is rejected when its hit exceeds max.
OverLimit(totalHits, max) == totalHits > max

NoBody == [success |-> TRUE]
NoLast ==
  [outcome |-> "none", counted |-> FALSE, status |-> 0, body |-> NoBody,
   max |-> 0, pressure |-> FALSE, remaining |-> 0,
   adminPath |-> FALSE, health |-> FALSE, cred |-> "none",
   url |-> "none", logs |-> <<>>, retryAt |-> 0, retry |-> FALSE]

\* The analytics.logRequest calls of one request, as the sequence of their
\* blocked arguments: createAnalyticsLimiter's skip logs every request with
\* blocked = false, its handler logs the rejected ones with blocked = true.
SkipLog(l) == IF l.factory = "analytics" THEN <<FALSE>> ELSE <<>>
HandlerLog(l) == IF l.factory = "analytics" THEN <<TRUE>> ELSE <<>>

\* What the claims need to know of a credential.
CredClass(c) ==
  IF c.header = "bearer" /\ JwtVerify(c.token) \in {"admin", "moderator"} THEN "privileged"
  ELSE IF c.header = "bearer" /\ JwtVerify(c.token) = "user" THEN "user"
  ELSE "unverified"

\* The middleware rateLimit(options) returns, applied to one request: what it
\* does with the request.  skip is asked first; a request that is not skipped
\* is counted, and rejected with 429 when its hit exceeds max(req).  h and rt
\* are the client's hit count and the end of its window before the request.
RateLimitFrom(l, p, c, h, rt) ==
  LET sk == Skip(l, p, c)
      about == [NoLast EXCEPT !.pressure = isUnderPressure,
                              !.adminPath = IsAdminPath(p),
                              !.health = (p = HealthPath \/ p = ApiHealthPath),
                              !.cred = CredClass(c)]
  IN CASE sk = "throw" -> [about EXCEPT !.outcome = "throw", !.status = 500]
       [] sk = "skip" -> [about EXCEPT !.outcome = "next", !.logs = SkipLog(l)]
       [] OTHER ->
            LET inc == StoreIncrement(h, rt, now, l.windowMs)
                m == EffectiveMax(l, p)
            IN IF OverLimit(inc.hits, m)
               THEN [about EXCEPT !.outcome = "rejected", !.counted = TRUE,
                                  !.status = 429, !.body = RejectionBody(l),
                                  !.max = m, !.remaining = inc.resetTime - now,
                                  !.logs = SkipLog(l) \o HandlerLog(l)]
               ELSE [about EXCEPT !.outcome = "next", !.counted = TRUE, !.max = m,
                                  !.logs = SkipLog(l)]

\* The same on the client's counter as it stands.
RateLimit(l, p, c) == RateLimitFrom(l, p, c, hits, resetTime)

\* Bookkeeping for the claims: the requests of the client's current window.
\* ok: every request of the window was an ordinary one (no health or logout
\* path, no privileged credential) and all met the same effective maximum L;
\* the counts are kept only while ok holds.
NoWin == [open |-> FALSE, end |-> 0, admitted |-> 0, rejected |-> 0,
          L |-> 0, ok |-> TRUE]

Ordinary(u, c) ==
  /\ UrlKind(u) \notin {"health", "logout"}
  /\ CredClass(c) # "privileged"

WinAfter(l, u, p, c, out) ==
  LET w0 == IF ~win.open \/ now >= win.end
            THEN [NoWin EXCEPT !.open = TRUE, !.end = now + l.windowMs,
                               !.L = EffectiveMax(l, p)]
            ELSE win
      ok == w0.ok /\ Ordinary(u, c) /\ EffectiveMax(l, p) = w0.L
  IN IF ok
     THEN [w0 EXCEPT !.admitted = IF out.outcome = "next" THEN @ + 1 ELSE @,
                     !.rejected = IF out.status = 429 THEN @ + 1 ELSE @]
     ELSE [w0 EXCEPT !.ok = FALSE, !.admitted = 0, !.rejected = 0, !.L = 0]

LimiterIdle ==
  /\ lim = Limiter("analytics", "auth", 5, FifteenMinutes)
  /\ now = 0
  /\ advances = 0
  /\ hits = 0
  /\ resetTime = 0
  /\ last = NoLast
  /\ calm = [a \in BOOLEAN |-> 0]
  /\ win = NoWin


\* ------------------------------------------------------------ analytics store
OneDay == 24 * 60 * 60 * 1000
\* The addresses the store can hold counters for, and the two of them that
\* send the requests of the store, summary and hourly models.
IPOrder == <<"10.0.0.1", "10.0.0.2", "10.0.0.3", "10.0.0.4", "10.0.0.5", "10.0.0.6",
             "10.0.0.7", "10.0.0.8", "10.0.0.9", "10.0.0.10", "10.0.0.11", "10.0.0.12">>
IPs == {IPOrder[i] : i \in DOMAIN IPOrder}
Clients == {"10.0.0.1", "10.0.0.2"}
Endpoints == {"/api/projects", "/api/auth/login"}

\* getAnalytics: recentRequests is cut by slice(0, 100).
RecentLimit == 100
\* getIPAnalytics: recentActivity is cut by slice(0, 50).
ActivityLimit == 50
\* getAnalytics: the answer shows recentRequests.slice(0, 20).
ShownLimit == 20
\* getAnalytics: topViolators is cut by slice(0, 10).
ViolatorLimit == 10

NoEndpoint == [total |-> 0, blocked |-> 0, lastAccess |-> -1]

\* new RateLimitAnalytics().  requests is a Map: its entries in insertion
\* order; violations, endpoints, topIPs and topEndpoints are Maps read with
\* "|| 0", an absent key being a count of 0.  violators is the key order of the
\* violations Map: the IPs in the order of their first violation.
NewAnalytics ==
  [requests |-> <<>>,
   violations |-> [i \in IPs |-> 0],
   violators |-> <<>>,
   endpoints |-> [e \in Endpoints |-> NoEndpoint],
   hourlyStats |-> <<>>,
   realTimeStats |-> [currentRequests |-> 0, blockedRequests |-> 0,
                      topIPs |-> [i \in IPs |-> 0],
                      topEndpoints |-> [e \in Endpoints |-> 0]]]

\* Map.prototype.set: an existing key keeps its place and takes the new value.
MapSet(m, k, v) ==
  IF \E i \in DOMAIN m : m[i].key = k
  THEN [i \in DOMAIN m |-> IF m[i].key = k THEN [key |-> k, value |-> v] ELSE m[i]]
  ELSE Append(m, [key |-> k, value |-> v])

\* Array.from(map.values())
Values(m) == [i \in DOMAIN m |-> m[i].value]

Take(s, n) == SubSeq(s, 1, Min(n, Len(s)))

RECURSIVE SumOver(_, _)
SumOver(f, S) ==
  IF S = {} THEN 0
  ELSE LET x == CHOOSE y \in S : TRUE IN f[x] + SumOver(f, S \ {x})

\* Array.prototype.sort((a, b) => b.timestamp - a.timestamp): a stable sort,
\* newest first, records of equal timestamp staying in their order.  placed
\* pairs each index of s with the number of records sorted before it.
SortNewestFirst(s) ==
  LET Ahead(i) == {j \in DOMAIN s : \/ s[j].timestamp > s[i].timestamp
                                    \/ s[j].timestamp = s[i].timestamp /\ j < i}
      placed == {<<Cardinality(Ahead(i)) + 1, i>> : i \in DOMAIN s}
  IN [p \in DOMAIN s |-> s[(CHOOSE q \in placed : q[1] = p)[2]]]

\* Mutant of logRequest: the violation of a blocked request is not counted.
logRequestNoViolation(s, ip, endpoint, blocked, timestamp, keyTime) ==
  [s EXCEPT
     !.requests = MapSet(@, <<ip, keyTime>>,
                         [ip |-> ip, endpoint |-> endpoint, blocked |-> blocked,
                          timestamp |-> timestamp]),
     !.realTimeStats = [@ EXCEPT !.currentRequests = @ + 1,
                                 !.blockedRequests = IF blocked THEN @ + 1 ELSE @,
                                 !.topIPs[ip] = @ + 1,
                                 !.topEndpoints[endpoint] = @ + 1],
     !.endpoints[endpoint] = [total |-> @.total + 1,
                              blocked |-> IF blocked THEN @.blocked + 1 ELSE @.blocked,
                              lastAccess |-> timestamp]]

\* Mutant of logRequest: endpointStats.total is not incremented for a blocked
\* request.
logRequestBlockedOnly(s, ip, endpoint, blocked, timestamp, keyTime) ==
  [s EXCEPT
     !.requests = MapSet(@, <<ip, keyTime>>,
                         [ip |-> ip, endpoint |-> endpoint, blocked |-> blocked,
                          timestamp |-> timestamp]),
     !.realTimeStats = [@ EXCEPT !.currentRequests = @ + 1,
                                 !.blockedRequests = IF blocked THEN @ + 1 ELSE @,
                                 !.topIPs[ip] = @ + 1,
                                 !.topEndpoints[endpoint] = @ + 1],
     !.violations[ip] = IF blocked THEN @ + 1 ELSE @,
     !.violators = IF blocked /\ \A i \in DOMAIN @ : @[i] # ip THEN Append(@, ip) ELSE @,
     !.endpoints[endpoint] = [total |-> IF blocked THEN @.total ELSE @.total + 1,
                              blocked |-> IF blocked THEN @.blocked + 1 ELSE @.blocked,
                              lastAccess |-> timestamp]]

\* RateLimitAnalytics.logRequest.  timestamp is the reading of "new Date()",
\* keyTime the later reading of "Date.now()" that goes into the key.  userAgent
\* and method are stored and never read by the store; they are left out.
logRequest(s, ip, endpoint, blocked, timestamp, keyTime) ==
  [s EXCEPT
     !.requests = MapSet(@, <<ip, keyTime>>,
                         [ip |-> ip, endpoint |-> endpoint, blocked |-> blocked,
                          timestamp |-> timestamp]),
     !.realTimeStats = [@ EXCEPT !.currentRequests = @ + 1,
                                 !.blockedRequests = IF blocked THEN @ + 1 ELSE @,
                                 !.topIPs[ip] = @ + 1,
                                 !.topEndpoints[endpoint] = @ + 1],
     !.violations[ip] = IF blocked THEN @ + 1 ELSE @,
     !.violators = IF blocked /\ \A i \in DOMAIN @ : @[i] # ip THEN Append(@, ip) ELSE @,
     !.endpoints[endpoint] = [total |-> @.total + 1,
                              blocked |-> IF blocked THEN @.blocked + 1 ELSE @.blocked,
                              lastAccess |-> timestamp]]

\* Mutant of updateHourlyStats: every stored record is counted, not only those
\* of the trailing hour.
updateHourlyStatsCountsAll(s, t) ==
  LET dayAgo == t - OneDay
      IsBlocked(r) == r.blocked
      InDay(b) == b.timestamp >= dayAgo
      all == Values(s.requests)
      bucket == [timestamp |-> t,
                 requests |-> Len(all),
                 blocked |-> Len(SelectSeq(all, IsBlocked)),
                 activeIPs |-> Cardinality({all[i].ip : i \in DOMAIN all})]
  IN [s EXCEPT !.hourlyStats = SelectSeq(Append(@, bucket), InDay)]

\* Mutant of updateHourlyStats: buckets older than 24 hours are not removed.
updateHourlyStatsNoPrune(s, t) ==
  LET hourAgo == t - OneHour
      InHour(r) == r.timestamp >= hourAgo
      InHourBlocked(r) == r.timestamp >= hourAgo /\ r.blocked
      recent == SelectSeq(Values(s.requests), InHour)
      bucket == [timestamp |-> t,
                 requests |-> Len(recent),
                 blocked |-> Len(SelectSeq(Values(s.requests), InHourBlocked)),
                 activeIPs |-> Cardinality({recent[i].ip : i \in DOMAIN recent})]
  IN [s EXCEPT !.hourlyStats = Append(@, bucket)]

\* RateLimitAnalytics.updateHourlyStats, at time t.
updateHourlyStats(s, t) ==
  LET hourAgo == t - OneHour
      dayAgo == t - OneDay
      InHour(r) == r.timestamp >= hourAgo
      InHourBlocked(r) == r.timestamp >= hourAgo /\ r.blocked
      InDay(b) == b.timestamp >= dayAgo
      recent == SelectSeq(Values(s.requests), InHour)
      bucket == [timestamp |-> t,
                 requests |-> Len(recent),
                 blocked |-> Len(SelectSeq(Values(s.requests), InHourBlocked)),
                 activeIPs |-> Cardinality({recent[i].ip : i \in DOMAIN recent})]
  IN [s EXCEPT !.hourlyStats = SelectSeq(Append(@, bucket), InDay)]

\* Mutant of cleanupOldData: the violation counters are cleared as well.
cleanupOldDataClearsViolations(s, t) ==
  LET hourAgo == t - OneHour
      Kept(e) == ~(e.value.timestamp < hourAgo)
  IN [s EXCEPT !.requests = SelectSeq(@, Kept),
               !.violations = [i \in IPs |-> 0],
               !.realTimeStats = [currentRequests |-> 0, blockedRequests |-> 0,
                                  topIPs |-> [i \in IPs |-> 0],
                                  topEndpoints |-> [e \in Endpoints |-> 0]]]

\* Mutant of cleanupOldData: every record is deleted, whatever its age.
cleanupOldDataDropsAll(s, t) ==
  [s EXCEPT !.requests = <<>>,
            !.realTimeStats = [currentRequests |-> 0, blockedRequests |-> 0,
                               topIPs |-> [i \in IPs |-> 0],
                               topEndpoints |-> [e \in Endpoints |-> 0]]]

\* RateLimitAnalytics.cleanupOldData, at time t.
cleanupOldData(s, t) ==
  LET hourAgo == t - OneHour
      Kept(e) == ~(e.value.timestamp < hourAgo)
  IN [s EXCEPT !.requests = SelectSeq(@, Kept),
               !.realTimeStats = [currentRequests |-> 0, blockedRequests |-> 0,
                                  topIPs |-> [i \in IPs |-> 0],
                                  topEndpoints |-> [e \in Endpoints |-> 0]]]

\* Array.prototype.sort((a, b) => b[1] - a[1]) on the entries of the violations
\* Map: a stable sort, the highest count first.
RECURSIVE SortMostFirst(_)
SortMostFirst(s) ==
  IF Len(s) <= 1 THEN s
  ELSE LET x == s[Len(s)]
           front == SortMostFirst(SubSeq(s, 1, Len(s) - 1))
           k == Cardinality({i \in DOMAIN front : front[i].violations >= x.violations})
       IN SubSeq(front, 1, k) \o <<x>> \o SubSeq(front, k + 1, Len(front))

\* getAnalytics: const recentRequests = ... .filter().sort().slice(0, 100)
RecentRequests(s, t) ==
  LET hourAgo == t - OneHour
      InHour(r) == r.timestamp >= hourAgo
  IN Take(SortNewestFirst(SelectSeq(Values(s.requests), InHour)), RecentLimit)

\* RateLimitAnalytics.getAnalytics, at time t: the summary counts, the 20 most
\* recent requests, the top violators, the per-endpoint statistics (at most
\* ten; there are fewer endpoints here), the hourly series and the real-time
\* counters.
getAnalytics(s, t) ==
  LET IsBlocked(r) == r.blocked
      recentRequests == RecentRequests(s, t)
  IN [summary |-> [totalRequests |-> Len(recentRequests),
                   blockedRequests |-> Len(SelectSeq(recentRequests, IsBlocked)),
                   activeIPs |-> Cardinality({recentRequests[i].ip : i \in DOMAIN recentRequests}),
                   totalViolations |-> SumOver(s.violations, IPs)],
      recentRequests |-> Take(recentRequests, ShownLimit),
      topViolators |-> Take(SortMostFirst([i \in DOMAIN s.violators |->
                                             [ip |-> s.violators[i],
                                              violations |-> s.violations[s.violators[i]]]]),
                            ViolatorLimit),
      endpointStats |-> {[endpoint |-> e, total |-> s.endpoints[e].total,
                          blocked |-> s.endpoints[e].blocked] :
                         e \in {x \in Endpoints : s.endpoints[x].total > 0}},
      hourlyStats |-> s.hourlyStats,
      realTimeStats |-> [currentRequests |-> s.realTimeStats.currentRequests,
                         blockedRequests |-> s.realTimeStats.blockedRequests]]

\* RateLimitAnalytics.getIPAnalytics.
getIPAnalytics(s, ip) ==
  LET OfIP(r) == r.ip = ip
      IsBlocked(r) == r.blocked
      requests == SortNewestFirst(SelectSeq(Values(s.requests), OfIP))
  IN [ip |-> ip,
      totalRequests |-> Len(requests),
      blockedRequests |-> Len(SelectSeq(requests, IsBlocked)),
      violations |-> s.violations[ip],
      endpoints |-> {requests[i].endpoint : i \in DOMAIN requests},
      recentActivity |-> Take(requests, ActivityLimit)]

\* analyticsController.getTrafficSummary: the time range of a timeframe.
Timeframes == {"1h", "6h", "24h", "7d", "30d"}
TimeRange(timeframe) ==
  CASE timeframe = "1h" -> OneHour
    [] timeframe = "6h" -> 6 * OneHour
    [] timeframe = "24h" -> OneDay
    [] timeframe = "7d" -> 7 * OneDay
    [] OTHER -> OneDay

\* stats.reduce((sum, stat) => sum + stat.requests, 0), and the same for
\* stat.blocked.
RECURSIVE SumRequests(_)
SumRequests(stats) ==
  IF stats = <<>> THEN 0 ELSE stats[Len(stats)].requests + SumRequests(SubSeq(stats, 1, Len(stats) - 1))
RECURSIVE SumBlocked(_)
SumBlocked(stats) ==
  IF stats = <<>> THEN 0 ELSE stats[Len(stats)].blocked + SumBlocked(SubSeq(stats, 1, Len(stats) - 1))

\* stats.reduce((max, stat) => stat.requests > max.requests ? stat : max, max)
RECURSIVE PeakFrom(_, _)
PeakFrom(stats, max) ==
  IF stats = <<>> THEN max
  ELSE PeakFrom(Tail(stats), IF Head(stats).requests > max.requests THEN Head(stats) ELSE max)

\* Mutant of getTrafficSummary: the series is always filtered to 24 hours.
getTrafficSummaryAlwaysDay(s, t, timeframe) ==
  LET startTime == t - OneDay
      analyticsData == getAnalytics(s, t)
      InFrame(stat) == stat.timestamp >= startTime
      filteredHourlyStats == SelectSeq(analyticsData.hourlyStats, InFrame)
      totalRequests == SumRequests(filteredHourlyStats)
      totalBlocked == SumBlocked(filteredHourlyStats)
      peakTraffic == PeakFrom(filteredHourlyStats, [requests |-> 0, timestamp |-> t])
  IN [timeframe |-> timeframe,
      summary |-> [totalRequests |-> totalRequests,
                   totalBlocked |-> totalBlocked,
                   averageRequestsPerHour |->
                     IF Len(filteredHourlyStats) > 0
                       THEN Round(totalRequests, Len(filteredHourlyStats)) ELSE 0,
                   peakTraffic |-> [requests |-> peakTraffic.requests,
                                    timestamp |-> peakTraffic.timestamp]],
      hourlyStats |-> filteredHourlyStats,
      currentStats |-> analyticsData.summary]

\* analyticsController.getTrafficSummary, at time t: the response data (the
\* blockRate, a decimal fraction, is left out).
getTrafficSummary(s, t, timeframe) ==
  LET startTime == t - TimeRange(timeframe)
      analyticsData == getAnalytics(s, t)
      InFrame(stat) == stat.timestamp >= startTime
      filteredHourlyStats == SelectSeq(analyticsData.hourlyStats, InFrame)
      totalRequests == SumRequests(filteredHourlyStats)
      totalBlocked == SumBlocked(filteredHourlyStats)
      peakTraffic == PeakFrom(filteredHourlyStats, [requests |-> 0, timestamp |-> t])
  IN [timeframe |-> timeframe,
      summary |-> [totalRequests |-> totalRequests,
                   totalBlocked |-> totalBlocked,
                   averageRequestsPerHour |->
                     IF Len(filteredHourlyStats) > 0
                       THEN Round(totalRequests, Len(filteredHourlyStats)) ELSE 0,
                   peakTraffic |-> [requests |-> peakTraffic.requests,
                                    timestamp |-> peakTraffic.timestamp]],
      hourlyStats |-> filteredHourlyStats,
      currentStats |-> analyticsData.summary]

\* analyticsController.getBlockedIPs, at time t: the response data.  Each
\* entry joins a top violator with getIPAnalytics of its IP (the blockRate, a
\* decimal fraction, is left out; lastActivity is -1 for null).
getBlockedIPs(s, t, page, limit) ==
  LET analyticsData == getAnalytics(s, t)
      Joined(violator) ==
        LET ipData == getIPAnalytics(s, violator.ip)
        IN [ip |-> violator.ip,
            violations |-> ipData.violations,
            totalRequests |-> ipData.totalRequests,
            blockedRequests |-> ipData.blockedRequests,
            lastActivity |-> IF ipData.recentActivity = <<>> THEN -1
                             ELSE ipData.recentActivity[1].timestamp]
      blockedIPs == [i \in DOMAIN analyticsData.topViolators |->
                       Joined(analyticsData.topViolators[i])]
      startIndex == (page - 1) * limit
      endIndex == startIndex + limit
      paginatedIPs == SubSeq(blockedIPs, startIndex + 1, Min(endIndex, Len(blockedIPs)))
  IN [blockedIPs |-> paginatedIPs,
      pagination |-> [current |-> page,
                      limit |-> limit,
                      total |-> Len(blockedIPs),
                      pages |-> Ceil(Len(blockedIPs), limit)],
      summary |-> [totalBlockedIPs |-> Len(blockedIPs),
                   totalViolations |->
                     SumOver([i \in DOMAIN blockedIPs |-> blockedIPs[i].violations],
                             DOMAIN blockedIPs)]]

NoLog == [ip |-> "none", endpoint |-> "none", blocked |-> FALSE, timestamp |-> -1]

\* Mutant of toggleIPBlock: blocking an IP is counted as a violation of it.
toggleIPBlockCounted(st, ip, action) ==
  [state |-> [st EXCEPT !.analytics.violations[ip] =
                          IF action = "block" THEN @ + 1 ELSE @],
   data |-> [ip |-> ip, action |-> action]]

\* analyticsController.toggleIPBlock on the state st the limiters and the
\* store keep: the state it leaves and the data of its response (the time and
\* the admin's name are left out).
toggleIPBlock(st, ip, action) ==
  [state |-> st, data |-> [ip |-> ip, action |-> action]]

NoToggle == [ip |-> "none", action |-> "none", early |-> FALSE]

StoreIdle ==
  /\ analytics = NewAnalytics
  /\ clock = 0
  /\ obs = [logged |-> NoLog, first |-> -1, passes |-> 0, report |-> <<>>,
            sampleError |-> FALSE, toggle |-> NoToggle, calls |-> <<>>]

\* ------------------------------------------------------------ health check
\* MemoryMonitor.getStatus: percentage is Math.round of the live heap usage
\* (here in tenths of a percent); underPressure is the flag of the last sample.
HeapTenths == {500, 854, 855, 900, 904, 905, 950}
MemoryStatus(tenths, flag) ==
  [percentage |-> Round(tenths, 10), underPressure |-> flag]

\* RequestQueue.getStatus
QueueStatus(len) == [queueLength |-> len]

\* Mutant of healthCheck: the underPressure flag is not looked at.
healthCheckNoPressure(memoryStatus, queueStatus) ==
  LET s1 == IF queueStatus.queueLength > 10 THEN "degraded" ELSE "healthy"
      s2 == IF queueStatus.queueLength > 20 \/ memoryStatus.percentage > 90
            THEN "critical" ELSE s1
  IN [status |-> s2, statusCode |-> IF s2 = "healthy" THEN 200
                                    ELSE IF s2 = "degraded" THEN 200 ELSE 503]

\* healthCheck: the status reported and the HTTP status code.
healthCheck(memoryStatus, queueStatus) ==
  LET s1 == IF memoryStatus.underPressure \/ queueStatus.queueLength > 10
            THEN "degraded" ELSE "healthy"
      s2 == IF queueStatus.queueLength > 20 \/ memoryStatus.percentage > 90
            THEN "critical" ELSE s1
  IN [status |-> s2, statusCode |-> IF s2 = "healthy" THEN 200
                                    ELSE IF s2 = "degraded" THEN 200 ELSE 503]

NoAnswer == [status |-> "none", statusCode |-> 0]
HealthInputs ==
  [queueLength : 0..MaxQueueLen, tenths : HeapTenths, underPressure : BOOLEAN,
   answer : {NoAnswer}]

HealthIdle == health = [queueLength |-> 0, tenths |-> 500, underPressure |-> FALSE,
                        answer |-> NoAnswer]

\* ------------------------------------------------------------------ actions
QueueIdle ==
  /\ activeRequests = 0
  /\ queue = <<>>
  /\ isProcessing = FALSE
  /\ isUnderPressure = FALSE
  /\ immediates = 0
  /\ isAdmin = [r \in Reqs |-> FALSE]
  /\ phase = [r \in Reqs |-> "new"]
  /\ via = [r \in Reqs |-> "none"]
  /\ timer = [r \in Reqs |-> FALSE]
  /\ ev = [r \in Reqs |-> "none"]
  /\ admits = [r \in Reqs |-> 0]
  /\ resp = [r \in Reqs |-> NoResp]
  /\ quiet = TRUE

\* A request reaches the queue middleware; requests are numbered in arrival order.
ArriveStep(r, p) ==
  /\ phase[r] = "new"
  /\ \A x \in Reqs : x < r => phase[x] # "new"
  /\ Install(Middleware(Cur, r, p))
  /\ UNCHANGED <<isUnderPressure, quiet>>

\* The same, seen from the queue alone.
Arrive(r, p) == ArriveStep(r, p) /\ UNCHANGED <<lvars, svars>>

\* The response of an admitted request emits 'finish' or 'error' (one of the
\* two, at most once) and then 'close', or 'close' alone when the connection
\* is lost first; 'close' is the last event of a response.  Every event runs
\* the cleanup attached to it.  Responses the queue attached no listener to
\* (bypass paths, 503 rejections) change nothing and are left out.
ResponseStep(r, e) ==
  /\ phase[r] \in {"inflight", "done"}
  /\ via[r] \in {"direct", "drain"}
  /\ ev[r] # "closed"
  /\ e \in {"finish", "error"} => ev[r] = "none"
  /\ Install([Cleanup(Cur, r) EXCEPT
                !.phase[r] = "done",
                !.ev[r] = IF e = "close" THEN "closed" ELSE "ended",
                \* after 'close' no listener of this response runs again
                !.via[r] = IF e = "close" THEN "none" ELSE @])
  /\ quiet' = FALSE
  /\ UNCHANGED isUnderPressure

ResponseEvent(r, e) == ResponseStep(r, e) /\ UNCHANGED <<lvars, svars>>

\* The client of a queued request goes away: 'close' is emitted on a response
\* that has no listener yet.
DisconnectQueued(r) ==
  /\ phase[r] = "queued"
  /\ ev[r] = "none"
  /\ Install([Cur EXCEPT !.ev[r] = "closed"])
  /\ quiet' = FALSE
  /\ UNCHANGED <<isUnderPressure, lvars, svars>>

\* The 10 s timer of a queued request fires.
TimeoutStep(r) ==
  /\ timer[r]
  /\ Install(OnTimeout(Cur, r))
  /\ quiet' = FALSE
  /\ UNCHANGED isUnderPressure

TimeoutFires(r) == TimeoutStep(r) /\ UNCHANGED <<lvars, svars>>

\* A setImmediate(() => this.processQueue()) callback runs.
ImmediateStep ==
  /\ immediates > 0
  /\ Install(ProcessQueue([Cur EXCEPT !.immediates = @ - 1]))
  /\ UNCHANGED <<isUnderPressure, quiet>>

RunImmediate == ImmediateStep /\ UNCHANGED <<lvars, svars>>

\* The 30 s sampling callback of the MemoryMonitor.
MemorySample(h) ==
  /\ isUnderPressure' = PressureOf(h)
  /\ UNCHANGED <<activeRequests, queue, isProcessing, immediates,
                 isAdmin, phase, via, timer, ev, admits, resp, lvars, svars>>

InitQueue == QueueIdle /\ LimiterIdle /\ StoreIdle /\ HealthIdle

NextQueue ==
  \/ \E r \in Reqs, p \in QueuePaths : Arrive(r, p)
  \/ \E r \in Reqs, e \in ResEvents : ResponseEvent(r, e)
  \/ \E r \in Reqs : DisconnectQueued(r)
  \/ \E r \in Reqs : TimeoutFires(r)
  \/ RunImmediate
  \/ \E h \in HeapSamples : MemorySample(h) /\ quiet' = (quiet /\ ~PressureOf(h))

SpecQueue == InitQueue /\ [][NextQueue]_vars

\* The queue with the timers of Node: a setTimeout callback that is due runs.
\* Requests for one ordinary and one admin path; a low and a high heap sample.
NextQueueLive ==
  \/ \E r \in Reqs, p \in {ProjectsPath, AdminUsersPath} : Arrive(r, p)
  \/ \E r \in Reqs, e \in ResEvents : ResponseEvent(r, e)
  \/ \E r \in Reqs : DisconnectQueued(r)
  \/ \E r \in Reqs : TimeoutFires(r)
  \/ RunImmediate
  \/ \E h \in {50, 95} : MemorySample(h) /\ quiet' = (quiet /\ ~PressureOf(h))

SpecQueueLive ==
  InitQueue /\ [][NextQueueLive]_vars /\ \A r \in Reqs : WF_vars(TimeoutFires(r))

\* ------------------------------------------------- the monitor's sampling
\* The sampling callback runs to its end on a heap usage of h percent (an
\* error of global.gc() is caught inside it).
SampleTick(h) ==
  /\ isUnderPressure' = PressureOf(h)
  /\ quiet' = (quiet /\ ~PressureOf(h))
  /\ obs' = [obs EXCEPT !.sampleError = FALSE]
  /\ UNCHANGED <<activeRequests, queue, isProcessing, immediates, isAdmin,
                 phase, via, timer, ev, admits, resp, lvars, analytics, clock, health>>

\* process.memoryUsage() throws in the sampling callback: the assignment to
\* isUnderPressure is not reached, and nothing in the callback catches the error.
SampleThrows ==
  /\ obs' = [obs EXCEPT !.sampleError = TRUE]
  /\ UNCHANGED <<qvars, lvars, analytics, clock, health>>

\* The queue with a monitor whose samples may fail.
NextMonitor ==
  \/ \E r \in Reqs : Arrive(r, ProjectsPath)
  \/ \E r \in Reqs, e \in ResEvents : ResponseEvent(r, e)
  \/ \E r \in Reqs : TimeoutFires(r)
  \/ RunImmediate
  \/ \E h \in HeapSamples : SampleTick(h)
  \/ SampleThrows

SpecMonitor == InitQueue /\ [][NextMonitor]_vars

\* ------------------------------------------------------- rate limiter actions
InitLimiter ==
  /\ QueueIdle
  /\ lim \in Limiters
  /\ now = 0
  /\ advances = 0
  /\ hits = 0
  /\ resetTime = 0
  /\ last = NoLast
  /\ calm = [a \in BOOLEAN |-> 0]
  /\ win = NoWin
  /\ StoreIdle
  /\ HealthIdle

\* When a rejected client may come back, going by the retryAfter of its 429
\* body (0: the body names none).
RetryAt(out) ==
  IF out.status = 429 /\ "retryAfter" \in DOMAIN out.body
  THEN now + 1000 * out.body.retryAfter ELSE 0

\* One request of the client, for URL u, reaches the limiter mounted at m.
\* retry: it is the first request after a rejection and comes no earlier than
\* the retryAfter of that rejection.
Request(u, m, c) ==
  /\ last' = LET out == RateLimit(lim, RelPath(u, m), c) IN
             [out EXCEPT !.url = UrlKind(u),
                         !.retryAt = RetryAt(out),
                         !.retry = last.retryAt > 0 /\ now >= last.retryAt]
  /\ hits' = IF last'.counted
             THEN StoreIncrement(hits, resetTime, now, lim.windowMs).hits ELSE hits
  /\ hits' <= MaxRequests
  /\ resetTime' = IF last'.counted
                  THEN StoreIncrement(hits, resetTime, now, lim.windowMs).resetTime
                  ELSE resetTime
  /\ win' = WinAfter(lim, u, RelPath(u, m), c, last')
  /\ calm' = IF lim.factory = "stability" /\ last'.counted /\ ~isUnderPressure
             THEN [calm EXCEPT ![IsAdminPath(RelPath(u, m))] = last'.max] ELSE calm
  /\ UNCHANGED <<qvars, lim, now, advances, svars>>

ClockAdvance(d) ==
  /\ advances < MaxAdvances
  /\ advances' = advances + 1
  /\ now' = now + d
  /\ UNCHANGED <<qvars, lim, hits, resetTime, last, calm, win, svars>>

NextLimiter ==
  \/ \E r \in Routes(lim), c \in Creds : Request(r[1], r[2], c)
  \/ \E d \in {OneMinute, lim.windowMs} : ClockAdvance(d)
  \/ \E h \in HeapSamples : MemorySample(h) /\ UNCHANGED quiet

SpecLimiter == InitLimiter /\ [][NextLimiter]_vars


\* ------------------------------------------------------ analytics store actions
InitAnalytics == QueueIdle /\ LimiterIdle /\ StoreIdle /\ HealthIdle

\* One analytics.logRequest call; the clock may pass to the next millisecond
\* between its two readings (tick = 1).
LogRequestCall(ip, endpoint, blocked, tick) ==
  /\ SumOver([e \in Endpoints |-> analytics.endpoints[e].total], Endpoints) < MaxLogs
  /\ analytics' = logRequest(analytics, ip, endpoint, blocked, clock, clock + tick)
  /\ clock' = clock + tick
  /\ obs' = [obs EXCEPT !.logged = [ip |-> ip, endpoint |-> endpoint,
                                    blocked |-> blocked, timestamp |-> clock],
                        !.first = IF @ = -1 THEN clock ELSE @]
  /\ UNCHANGED <<qvars, lvars, health>>

\* The setInterval callback that calls updateHourlyStats.
HourlyTick ==
  /\ Len(updateHourlyStats(analytics, clock).hourlyStats) <= MaxRollups
  /\ analytics' = updateHourlyStats(analytics, clock)
  /\ obs' = [obs EXCEPT !.logged = NoLog]
  /\ UNCHANGED <<qvars, lvars, clock, health>>

\* The setInterval callback that calls cleanupOldData.
CleanupTick ==
  /\ analytics' = cleanupOldData(analytics, clock)
  /\ obs' = [obs EXCEPT !.logged = NoLog]
  /\ UNCHANGED <<qvars, lvars, clock, health>>

TimePasses(d) ==
  /\ obs.passes < MaxPasses
  /\ clock' = clock + d
  /\ obs' = [obs EXCEPT !.logged = NoLog, !.passes = @ + 1]
  /\ UNCHANGED <<qvars, lvars, analytics, health>>

NextAnalytics ==
  \/ \E ip \in Clients, e \in Endpoints, b \in BOOLEAN, tick \in {0, 1} :
       LogRequestCall(ip, e, b, tick)
  \/ HourlyTick
  \/ CleanupTick
  \/ \E d \in {OneHour, OneDay} : TimePasses(d)

SpecAnalytics == InitAnalytics /\ [][NextAnalytics]_vars

\* ------------------------------------------------ getAnalytics on large stores
\* The largest number of records in a store handed to getAnalytics.
MaxStored == 102
HalfMinute == 30 * 1000
TenMinutes == 10 * 60 * 1000

InitSummary == QueueIdle /\ LimiterIdle /\ StoreIdle /\ HealthIdle

\* The next logRequest call of a series of calls gap milliseconds apart, the
\* first at time 0: a burst (one call per millisecond, every second one a
\* rejection) or a steady load (a call every half minute, every fifth one a
\* rejection), from two IPs on two endpoints.
LogNext(gap) ==
  LET n == SumOver([e \in Endpoints |-> analytics.endpoints[e].total], Endpoints) IN
  /\ obs.report = <<>>
  /\ n < MaxStored
  /\ clock = n * gap
  /\ analytics' = logRequest(analytics,
                             IF n % 3 = 2 THEN "10.0.0.2" ELSE "10.0.0.1",
                             IF n % 2 = 1 THEN "/api/auth/login" ELSE "/api/projects",
                             (n + 1) % (IF gap = 1 THEN 2 ELSE 5) = 0,
                             clock, clock)
  /\ clock' = clock + gap
  /\ obs' = [obs EXCEPT !.logged = NoLog, !.first = 0]
  /\ UNCHANGED <<qvars, lvars, health>>

\* Time passes until the cleanupOldData callback is due, one hour after the
\* store was made.  (Of the updateHourlyStats callbacks, due every minute, the
\* model runs at most MaxRollups; the summary reads none of their buckets.)
HourMark ==
  /\ obs.report = <<>>
  /\ clock < OneHour
  /\ clock' = OneHour
  /\ obs' = [obs EXCEPT !.passes = 1]
  /\ UNCHANGED <<qvars, lvars, analytics, health>>

\* Ten more minutes pass once cleanupOldData and updateHourlyStats have run.
TenMinutesLater ==
  /\ obs.report = <<>>
  /\ clock = OneHour
  /\ analytics.hourlyStats # <<>>
  /\ analytics.realTimeStats.currentRequests = 0
  /\ clock' = clock + TenMinutes
  /\ UNCHANGED <<qvars, lvars, analytics, obs, health>>

\* One analytics.getAnalytics() call (analyticsController).
Summarize ==
  /\ obs.report = <<>>
  /\ obs' = [obs EXCEPT !.report = <<getAnalytics(analytics, clock)>>]
  /\ UNCHANGED <<qvars, lvars, analytics, clock, health>>

NextSummary ==
  \/ \E gap \in {1, HalfMinute} : LogNext(gap)
  \/ HourMark
  \/ obs.report = <<>> /\ clock = OneHour /\ CleanupTick
  \/ obs.report = <<>> /\ clock = OneHour /\ HourlyTick
  \/ TenMinutesLater
  \/ Summarize

SpecSummary == InitSummary /\ [][NextSummary]_vars

\* ------------------------------------------------ the hourly series over time
\* Bounds of one run: logRequest calls, buckets kept, and steps of the clock.
MaxHourlyLogs == 2
MaxBuckets == 3
MaxSteps == 3

InitHourly == QueueIdle /\ LimiterIdle /\ StoreIdle /\ HealthIdle

\* One analytics.logRequest call, of the n-th request of the run: requests
\* come from the two IPs in turn, those of the second IP are rejected ones.
\* obs.calls keeps the times of the calls.
HourlyLog(ip, blocked) ==
  /\ Len(obs.calls) < MaxHourlyLogs
  /\ ip = (IF Len(obs.calls) % 2 = 0 THEN "10.0.0.1" ELSE "10.0.0.2")
  /\ blocked = (ip = "10.0.0.2")
  /\ analytics' = logRequest(analytics, ip, "/api/projects", blocked, clock, clock)
  /\ obs' = [obs EXCEPT !.calls = Append(@, clock), !.report = <<>>]
  /\ UNCHANGED <<qvars, lvars, clock, health>>

\* The setInterval callback that calls updateHourlyStats: first due a minute
\* after the store was made, then a minute after its last run.
MinuteTick ==
  /\ clock >= OneMinute
  /\ analytics.hourlyStats # <<>> =>
       clock >= analytics.hourlyStats[Len(analytics.hourlyStats)].timestamp + OneMinute
  /\ Len(updateHourlyStats(analytics, clock).hourlyStats) <= MaxBuckets
  /\ analytics' = updateHourlyStats(analytics, clock)
  /\ obs' = [obs EXCEPT !.report = <<>>]
  /\ UNCHANGED <<qvars, lvars, clock, health>>

\* The setInterval callback that calls cleanupOldData, first due an hour after
\* the store was made.
HourlyCleanup ==
  /\ clock >= OneHour
  /\ analytics' = cleanupOldData(analytics, clock)
  /\ obs' = [obs EXCEPT !.report = <<>>]
  /\ UNCHANGED <<qvars, lvars, clock, health>>

\* Time passes: half a minute, a minute, an hour or a day.
ClockStep(d) ==
  /\ obs.passes < MaxSteps
  /\ clock' = clock + d
  /\ obs' = [obs EXCEPT !.passes = @ + 1, !.report = <<>>]
  /\ UNCHANGED <<qvars, lvars, analytics, health>>

\* One GET of the traffic summary; obs.report keeps the response data.
TrafficSummary(timeframe) ==
  /\ obs' = [obs EXCEPT !.report = <<getTrafficSummary(analytics, clock, timeframe)>>]
  /\ UNCHANGED <<qvars, lvars, analytics, clock, health>>

NextHourly ==
  \/ \E ip \in {"10.0.0.1", "10.0.0.2"}, b \in BOOLEAN : HourlyLog(ip, b)
  \/ MinuteTick
  \/ HourlyCleanup
  \/ \E d \in {HalfMinute, OneMinute, OneHour, OneDay} : ClockStep(d)
  \/ \E tf \in Timeframes : TrafficSummary(tf)

SpecHourly == InitHourly /\ [][NextHourly]_vars

\* ------------------------------------------------------ the blocked-IP list
\* Rejected requests logged in one run, and the pages and page sizes asked for
\* (the defaults are page 1 and limit 50).
MaxBlockedLogs == 12
Pages == {1, 2}
Limits == {5, 10, 50}

InitBlocked == QueueIdle /\ LimiterIdle /\ StoreIdle /\ HealthIdle

\* One analytics.logRequest call for a rejected request, a millisecond after
\* the one before: from the address that was rejected last, or from the next
\* address that has not been rejected yet.
BlockedLog(ip) ==
  LET n == Len(analytics.violators) IN
  /\ Len(analytics.requests) < MaxBlockedLogs
  /\ \/ n > 0 /\ ip = analytics.violators[n]
     \/ n < Len(IPOrder) /\ ip = IPOrder[n + 1]
  /\ analytics' = logRequest(analytics, ip, "/api/auth/login", TRUE, clock, clock)
  /\ clock' = clock + 1
  /\ obs' = [obs EXCEPT !.report = <<>>]
  /\ UNCHANGED <<qvars, lvars, health>>

\* One GET of the blocked-IP list; obs.report keeps the response data.
BlockedIPs(page, limit) ==
  /\ obs' = [obs EXCEPT !.report = <<getBlockedIPs(analytics, clock, page, limit)>>]
  /\ UNCHANGED <<qvars, lvars, analytics, clock, health>>

NextBlocked ==
  \/ \E ip \in IPs : BlockedLog(ip)
  \/ \E page \in Pages, limit \in Limits : BlockedIPs(page, limit)

SpecBlocked == InitBlocked /\ [][NextBlocked]_vars

\* ------------------------------------------------------- the app's pipeline
\* app.js: the queue middleware, then the limiters in the order of their
\* app.use(mount, limiter) lines, then the routes.
AppUse ==
  << <<"auth", LoginUrl>>, <<"auth", RegisterUrl>>,
     <<"admin", AdminMount>>, <<"admin", AnalyticsMount>>,
     <<"api", ProjectsPath>>, <<"public", SuggestionsUrl>>,
     <<"api", ApiMount>> >>

\* The mount points at which a request for URL u meets limiter l, in order; a
\* limiter app.js does not name is mounted once, at the root.
MountsFor(l, u) ==
  LET Hit(e) == e[1] = l.name /\ IsPrefix(e[2], u)
      sel == IF \E i \in DOMAIN AppUse : AppUse[i][1] = l.name
             THEN SelectSeq(AppUse, Hit) ELSE << <<l.name, RootMount>> >>
  IN [i \in DOMAIN sel |-> sel[i][2]]

\* req.originalUrl of the URLs the analytics store is keyed by.
OriginalUrl(u) ==
  IF u = ProjectsPath THEN "/api/projects" ELSE "/api/auth/login"

\* One request for URL u goes through the mounts ms of limiter l one after the
\* other, until one of them rejects it.  st: the client's counter and the
\* outcomes so far.
RECURSIVE Through(_, _, _, _, _)
Through(l, u, c, ms, st) ==
  IF ms = <<>> THEN st
  ELSE LET out == RateLimitFrom(l, RelPath(u, Head(ms)), c, st.hits, st.resetTime)
           inc == StoreIncrement(st.hits, st.resetTime, now, l.windowMs)
           st1 == [hits |-> IF out.counted THEN inc.hits ELSE st.hits,
                   resetTime |-> IF out.counted THEN inc.resetTime ELSE st.resetTime,
                   outs |-> Append(st.outs, out)]
       IN IF out.outcome = "next" THEN Through(l, u, c, Tail(ms), st1) ELSE st1

\* The analytics.logRequest calls of one request, in order.
RECURSIVE LogAll(_, _, _, _, _)
LogAll(s, ip, endpoint, logs, t) ==
  IF logs = <<>> THEN s
  ELSE LogAll(logRequest(s, ip, endpoint, Head(logs), t, t), ip, endpoint, Tail(logs), t)

RECURSIVE Flatten(_)
Flatten(ss) == IF ss = <<>> THEN <<>> ELSE Head(ss) \o Flatten(Tail(ss))

\* What follows a step of the queue: the request it has called next() for, if
\* any, goes through the limiter's mounts (and, past them, to its route).
Downstream(u, c) ==
  IF \A r \in Reqs : admits'[r] = admits[r]
  THEN UNCHANGED <<lvars, svars>>
  ELSE LET t == Through(lim, u, c, MountsFor(lim, u),
                        [hits |-> hits, resetTime |-> resetTime, outs |-> <<>>])
           logs == Flatten([i \in DOMAIN t.outs |-> t.outs[i].logs])
       IN /\ hits' = t.hits
          /\ resetTime' = t.resetTime
          /\ last' = IF t.outs = <<>> THEN last
                     ELSE [t.outs[Len(t.outs)] EXCEPT !.url = UrlKind(u), !.logs = logs]
          /\ analytics' = LogAll(analytics, "10.0.0.1", OriginalUrl(u), logs, clock)
          /\ UNCHANGED <<lim, now, advances, calm, win, clock, obs, health>>

\* The limiters of the pipeline: the api limiter app.js mounts, the api limiter
\* of rateLimitAnalytics.js in its place, and a small analytics limiter.
AppLimiters ==
  {Limiter("stability", "api", 150, FifteenMinutes),
   Limiter("analytics", "api", 100, FifteenMinutes),
   Limiter("analytics", "test", TestMax, FifteenMinutes)}

InitApp ==
  /\ QueueIdle
  /\ lim \in AppLimiters
  /\ now = 0 /\ advances = 0 /\ hits = 0 /\ resetTime = 0
  /\ last = NoLast /\ calm = [a \in BOOLEAN |-> 0] /\ win = NoWin
  /\ StoreIdle
  /\ HealthIdle

\* The clients of the pipeline: one IP, no credentials, GET /api/projects.
Anonymous == Cred("absent", "")

AppArrive(r) == ArriveStep(r, ProjectsPath) /\ Downstream(ProjectsPath, Anonymous)
AppResponse(r, e) == ResponseStep(r, e) /\ Downstream(ProjectsPath, Anonymous)
AppTimeout(r) == TimeoutStep(r) /\ Downstream(ProjectsPath, Anonymous)
AppImmediate == ImmediateStep /\ Downstream(ProjectsPath, Anonymous)

NextApp ==
  \/ \E r \in Reqs : AppArrive(r)
  \/ \E r \in Reqs, e \in ResEvents : AppResponse(r, e)
  \/ \E r \in Reqs : DisconnectQueued(r)
  \/ \E r \in Reqs : AppTimeout(r)
  \/ AppImmediate
  \/ \E h \in HeapSamples : MemorySample(h) /\ quiet' = (quiet /\ ~PressureOf(h))

SpecApp == InitApp /\ [][NextApp]_vars

\* One PUT /api/admin/analytics/ip/:ip/toggle-block reaching its handler, once
\* in a run.  obs.toggle keeps the response data and whether the action came
\* before every request.
ToggleIPBlock(ip, action) ==
  LET out == toggleIPBlock([analytics |-> analytics, hits |-> hits,
                            resetTime |-> resetTime], ip, action)
  IN /\ obs.toggle = NoToggle
     /\ analytics' = out.state.analytics
     /\ hits' = out.state.hits
     /\ resetTime' = out.state.resetTime
     /\ obs' = [obs EXCEPT !.toggle =
                  [ip |-> out.data.ip, action |-> out.data.action,
                   early |-> \A r \in Reqs : phase[r] = "new"]]
     /\ UNCHANGED <<qvars, lim, now, advances, last, calm, win, clock, health>>

NextToggle ==
  \/ NextApp
  \/ \E ip \in Clients, action \in {"block", "unblock"} : ToggleIPBlock(ip, action)

\* The pipeline with the small limiter, which rejects some of the requests.
InitToggle == InitApp /\ lim.name = "test"

SpecToggle == InitToggle /\ [][NextToggle]_vars

\* ------------------------------------------------------- health check actions
InitHealth == QueueIdle /\ LimiterIdle /\ StoreIdle /\ health \in HealthInputs

\* GET /health or /api/health.
HealthProbe ==
  /\ health.answer = NoAnswer
  /\ health' = [health EXCEPT
                  !.answer = healthCheck(MemoryStatus(health.tenths, health.underPressure),
                                         QueueStatus(health.queueLength))]
  /\ UNCHANGED <<qvars, lvars, analytics, clock, obs>>

\* The queue length, the heap usage and the monitor's flag change.
HealthChange(h) ==
  /\ h \in HealthInputs
  /\ health.answer # NoAnswer
  /\ health' = h
  /\ UNCHANGED <<qvars, lvars, analytics, clock, obs>>

NextHealth ==
  \/ HealthProbe
  \/ \E h \in HealthInputs : HealthChange(h)

SpecHealth == InitHealth /\ [][NextHealth]_vars

\* ================================================================ claims
InFlight(r) == phase[r] = "inflight" /\ via[r] \in {"direct", "drain"}
NonBypassArrived == {r \in Reqs : phase[r] # "new" /\ via[r] # "bypass"}
DirectAdmitted == {r \in Reqs : via[r] = "direct"}

\* C1: the number of non-bypass requests that were admitted (next() called) and
\* have not completed yet never exceeds maxConcurrent.
C1_AdmissionBound == Cardinality({r \in Reqs : InFlight(r)}) <= maxConcurrent

C3_CompletionAdmitsHead ==
  [][\A r \in Reqs :
       (/\ phase[r] = "inflight" /\ via[r] = "direct" /\ phase'[r] = "done"
        /\ queue # <<>> /\ ~isUnderPressure)
       => (/\ queue' = Tail(queue)
           /\ phase'[Head(queue)] = "inflight"
           /\ admits'[Head(queue)] = 1)]_vars

\* C4: a request answered with 503 SERVER_BUSY is out of the queue and is never
\* admitted, an admitted request never gets the 503, no request is admitted
\* twice; and the timer of a queued request ends either by the dequeue
\* (admission, no rejection) or by firing (removal and 503 SERVER_BUSY).
C4_TimeoutDefinitive ==
  /\ [](\A r \in Reqs :
          /\ resp[r] \in {NoResp, ServerBusy}
          /\ admits[r] <= 1
          /\ resp[r] = ServerBusy =>
               admits[r] = 0 /\ ~InQueue(queue, r) /\ phase[r] = "rejected" /\ ~timer[r]
          /\ admits[r] > 0 => resp[r] = NoResp)
  /\ [][\A r \in Reqs :
          (timer[r] /\ ~timer'[r]) =>
             \/ /\ via'[r] = "drain" /\ admits'[r] = 1 /\ resp'[r] = NoResp
                /\ Head(queue) = r /\ ~InQueue(queue', r)
             \/ /\ phase'[r] = "rejected" /\ resp'[r] = ServerBusy
                /\ admits'[r] = 0 /\ ~InQueue(queue', r)]_vars

\* C4 witness: one request was rejected by its timeout and another one was
\* dequeued and admitted by processQueue.
C4_Witness ==
  \E r, x \in Reqs :
    /\ resp[r] = ServerBusy /\ phase[r] = "rejected"
    /\ x # r /\ via[x] = "drain" /\ admits[x] = 1

\* C5: when processQueue admits a queued request, no admin/analytics request is
\* left waiting behind a normal one, and no request of the same priority that
\* was enqueued earlier (requests are numbered in arrival order) is left waiting.
C5_QueueServiceOrder ==
  [][\A r \in Reqs :
       (phase[r] = "queued" /\ via'[r] = "drain") =>
         \A i \in DOMAIN queue' :
           LET x == queue'[i] IN
           /\ ~(isAdmin[x] /\ ~isAdmin[r])
           /\ ~(isAdmin[x] = isAdmin[r] /\ x < r)]_vars

C7_RetryAfterIsRemaining ==
  (lim \in DeployedLimiters /\ last.status = 429 /\ "retryAfter" \in DOMAIN last.body) =>
    last.body.retryAfter = Ceil(last.remaining, 1000)

StabilityPressured ==
  /\ lim.factory = "stability"
  /\ last.counted /\ last.pressure
  /\ calm[last.adminPath] > 0

\* C8 (as stated): a request counted under pressure meets exactly half of the
\* effective maximum that requests of the same limiter and path kind met
\* before the pressure.
C8_PressureHalvesExactly ==
  StabilityPressured => 2 * last.max = calm[last.adminPath]

\* C8 (amended): under pressure a createStabilityRateLimit limiter uses
\* floor(base / 2) on other paths and max(4 * floor(base / 2), 200) on admin
\* and analytics paths; that is never more than before the pressure and is
\* exactly half of it when the base is even and, on admin paths, the halved
\* and quadrupled value reaches 200.  A pressure change touches no counter.
C8_PressureHalvesFloored ==
  /\ [](StabilityPressured =>
          /\ last.max = IF last.adminPath
                        THEN Max(4 * (lim.max \div 2), 200)
                        ELSE lim.max \div 2
          /\ last.max <= calm[last.adminPath]
          /\ (lim.max % 2 = 0 /\ (last.adminPath => 2 * lim.max >= 200))
               => 2 * last.max = calm[last.adminPath])
  /\ [][isUnderPressure' # isUnderPressure =>
          UNCHANGED <<hits, resetTime, last, win>>]_vars

\* C8 witness: the auth limiter (base 15) served a request under max 15 and
\* then, under pressure, one under max 7.
C8_Witness ==
  /\ lim = Limiter("stability", "auth", 15, FifteenMinutes)
  /\ StabilityPressured /\ ~last.adminPath
  /\ calm[FALSE] = 15 /\ last.max = 7

\* C9 (as stated): a request with a verified admin or moderator credential is
\* never rejected by a configured limiter of the admin, api, auth or public
\* route class.
C9_PrivilegedNeverRejected ==
  (/\ lim \in DeployedLimiters /\ lim.name \in {"admin", "api", "auth", "public"}
   /\ last.cred = "privileged")
  => last.outcome # "rejected"

\* C9 (amended): the limiters built by createSmartLimiter neither count nor
\* reject a request with a verified admin or moderator credential.
C9_SmartPrivilegedNeverRejected ==
  (lim.factory = "smart" /\ last.cred = "privileged") =>
    (last.outcome = "next" /\ ~last.counted /\ last.status = 0)

\* C9 witness: the client is over the limit of a createSmartLimiter limiter
\* and its privileged request is let through.
C9_Witness ==
  /\ lim.factory = "smart" /\ hits > lim.max /\ now < resetTime
  /\ last.cred = "privileged" /\ last.outcome = "next"

\* C10: a createSmartLimiter limiter counts a request whose credential is
\* missing, malformed or fails verification, and admits or rejects it (429)
\* by the hit count alone; it never throws and never answers otherwise.
C10_UnverifiedCounted ==
  (lim.factory = "smart" /\ last.cred = "unverified" /\ last.outcome # "none") =>
    /\ last.counted
    /\ last.outcome \in {"next", "rejected"}
    /\ last.outcome = "rejected" <=> hits > lim.max
    /\ last.status = IF hits > lim.max THEN 429 ELSE 0

\* C10 witness: a request without a verified credential is rejected by count.
C10_Witness ==
  /\ lim.factory = "smart" /\ last.cred = "unverified"
  /\ last.outcome = "rejected" /\ last.status = 429 /\ hits = lim.max + 1

\* C11: the effective maximum a createStabilityRateLimit limiter applies to a
\* request is baseMax, times 0.5 under memory pressure, and for a URL under
\* /api/admin or /api/analytics (as mounted in app.js) max(4 x that, 200).
\* Both sides are doubled to stay in the integers.
C11_EffectiveMaxFormula ==
  (lim.factory = "stability" /\ last.counted) =>
    LET d == IF last.pressure THEN lim.max ELSE 2 * lim.max
    IN 2 * last.max = IF last.url = "admin" THEN Max(4 * d, 400) ELSE d

\* C12: a request to a health-check endpoint or to the logout endpoint is
\* never counted and never rejected; read on the limiters app.js mounts, those
\* of createStabilityRateLimit.
C12_HealthLogoutExempt ==
  (lim \in StabilityLimiters /\ last.url \in {"health", "logout"}) =>
    (~last.counted /\ last.outcome = "next")

\* C13: a request through one of the configured createAnalyticsLimiter
\* limiters causes exactly one logRequest call, with blocked = true exactly
\* when the request was rejected.
C13_OneLogPerRequest ==
  (lim \in AnalyticsLimiters /\ last.outcome # "none") =>
    last.logs = <<last.outcome = "rejected">>

\* C14: the body of a rate-limit rejection of a configured limiter of each of
\* the three factories has success = false, message, retryAfter, limit and
\* windowMs.
C14_RejectionBodyFields ==
  (/\ lim \in DeployedLimiters
   /\ lim.factory \in {"analytics", "stability", "smart"} /\ last.status = 429) =>
    /\ {"success", "message", "retryAfter", "limit", "windowMs"} \subseteq DOMAIN last.body
    /\ ~last.body.success

\* C20: a queued request whose client has disconnected is out of the queue
\* with its timer cancelled, and is never admitted by processQueue.
C20_DisconnectCancels ==
  \A r \in Reqs :
    ev[r] = "closed" =>
      /\ phase[r] = "queued" => (~InQueue(queue, r) /\ ~timer[r])
      /\ ~(phase[r] = "inflight" /\ via[r] = "drain")

Buckets == {analytics.hourlyStats[i] : i \in DOMAIN analytics.hourlyStats}
Logged == SumOver([e \in Endpoints |-> analytics.endpoints[e].total], Endpoints)

\* C15: blocked <= total in every aggregate of the analytics store: each
\* endpoint entry, the real-time counters, every hourly bucket, the summary of
\* getAnalytics and every getIPAnalytics result.
C15_BlockedAtMostTotal ==
  /\ \A e \in Endpoints :
       analytics.endpoints[e].blocked <= analytics.endpoints[e].total
  /\ analytics.realTimeStats.blockedRequests <= analytics.realTimeStats.currentRequests
  /\ \A b \in Buckets : b.blocked <= b.requests
  /\ LET a == getAnalytics(analytics, clock) IN
       /\ a.summary.blockedRequests <= a.summary.totalRequests
       /\ \A s \in a.endpointStats : s.blocked <= s.total
       /\ \A i \in DOMAIN a.hourlyStats : a.hourlyStats[i].blocked <= a.hourlyStats[i].requests
       /\ a.realTimeStats.blockedRequests <= a.realTimeStats.currentRequests
  /\ \A ip \in IPs :
       getIPAnalytics(analytics, ip).blockedRequests <= getIPAnalytics(analytics, ip).totalRequests

\* C15 witness: a blocked and an allowed request were logged, an hourly bucket
\* counted the blocked one, and cleanupOldData has since evicted a record and
\* reset the real-time counters.
C15_Witness ==
  /\ \E e \in Endpoints : analytics.endpoints[e].blocked >= 1
  /\ Logged = 2 /\ SumOver(analytics.violations, IPs) = 1
  /\ \E b \in Buckets : b.blocked = 1
  /\ Len(analytics.requests) = 1
  /\ analytics.realTimeStats.currentRequests = 0

\* C16: while no record is older than one hour, the sum of total over the
\* endpoint entries equals getAnalytics().summary.totalRequests.
C16_EndpointTotalsMatchSummary ==
  (obs.first # -1 /\ obs.first >= clock - OneHour) =>
    Logged = getAnalytics(analytics, clock).summary.totalRequests

\* C17: right after logRequest for request r, getIPAnalytics(r.ip) has r as
\* the first entry of recentActivity.
C17_LoggedIsMostRecent ==
  obs.logged # NoLog =>
    LET view == getIPAnalytics(analytics, obs.logged.ip) IN
    /\ view.recentActivity # <<>>
    /\ view.recentActivity[1] = obs.logged

\* C18: violations[ip] never decreases, whatever the step (logRequest,
\* updateHourlyStats, cleanupOldData); it grows by one on a logRequest with
\* blocked = true for that IP and stays as it is otherwise.
C18_ViolationsMonotonic ==
  [][\A ip \in IPs :
       /\ analytics'.violations[ip] >= analytics.violations[ip]
       /\ analytics'.violations[ip] =
            analytics.violations[ip] +
              (IF /\ Logged' = Logged + 1
                  /\ obs'.logged.ip = ip /\ obs'.logged.blocked
               THEN 1 ELSE 0)]_vars

\* C18 witness: an IP has two violations and cleanupOldData has evicted all
\* of its records.
C18_Witness ==
  \E ip \in IPs :
    /\ analytics.violations[ip] = 2
    /\ getIPAnalytics(analytics, ip).totalRequests = 0

\* C19 (as stated): critical (503) exactly when queue length > 20 or memory
\* percentage > 90; otherwise degraded (200) when queue length > 10; otherwise
\* healthy (200).
C19_HealthThresholds ==
  health.answer # NoAnswer =>
    LET pct == MemoryStatus(health.tenths, health.underPressure).percentage
        expected == IF health.queueLength > 20 \/ pct > 90 THEN "critical"
                    ELSE IF health.queueLength > 10 THEN "degraded"
                    ELSE "healthy"
    IN /\ health.answer.status = expected
       /\ health.answer.statusCode = 503 <=> health.answer.status = "critical"

\* C19 (amended): critical (503) exactly when queue length > 20 or memory
\* percentage > 90; otherwise degraded (200) when queue length > 10 or the
\* memory monitor's under-pressure flag is set; otherwise healthy (200).
C19_HealthThresholdsWithPressure ==
  health.answer # NoAnswer =>
    LET pct == MemoryStatus(health.tenths, health.underPressure).percentage
        expected == IF health.queueLength > 20 \/ pct > 90 THEN "critical"
                    ELSE IF health.queueLength > 10 \/ health.underPressure THEN "degraded"
                    ELSE "healthy"
    IN /\ health.answer.status = expected
       /\ health.answer.statusCode = (IF expected = "critical" THEN 503 ELSE 200)

\* C19 witness: the flag is set, the queue is short and the heap is at 90 %:
\* the answer is degraded, with status 200.
C19_Witness ==
  /\ health.underPressure /\ health.queueLength <= 10 /\ health.tenths = 904
  /\ health.answer = [status |-> "degraded", statusCode |-> 200]

\* C21: a request to /health, /api/health or a path containing /auth/logout is
\* passed on at once by the queue middleware, in every state, and
\* activeRequests, the queue and isProcessing stay as they are.
C21_BypassFrame ==
  [][\A r \in Reqs, p \in {HealthPath, ApiHealthPath, LogoutPath} :
       Arrive(r, p) =>
         /\ phase'[r] = "inflight" /\ via'[r] = "bypass" /\ admits'[r] = 1
         /\ resp'[r] = NoResp /\ ~timer'[r]
         /\ UNCHANGED <<activeRequests, queue, isProcessing>>]_vars

\* C21 witness: a bypass request went through while all slots were taken, a
\* request was waiting in the queue and memory was under pressure.
C21_Witness ==
  /\ activeRequests = maxConcurrent /\ queue # <<>> /\ isUnderPressure
  /\ \E r \in Reqs : via[r] = "bypass" /\ phase[r] = "inflight" /\ admits[r] = 1
  /\ \E r \in Reqs : phase[r] = "queued" /\ \E x \in Reqs : x > r /\ via[x] = "bypass"

\* C23: activeRequests is the number of admitted requests that have not
\* completed, and lies between 0 and maxConcurrent.
C23_ActiveCountAccounting ==
  /\ activeRequests = Cardinality({r \in Reqs : InFlight(r)})
  /\ 0 <= activeRequests /\ activeRequests <= maxConcurrent

\* C24: no queued request is timed out in a state where the queue could be
\* drained (a slot is free and memory is not under pressure).
C24_DrainCompleteness ==
  [][\A r \in Reqs :
       (resp[r] = NoResp /\ resp'[r] = ServerBusy) =>
         ~(queue # <<>> /\ activeRequests < maxConcurrent /\ ~isUnderPressure)]_vars

\* C25: while memory is under pressure no request other than a bypass request
\* is admitted: an arrival is queued with its timeout armed, whatever the
\* number of active requests, processQueue admits nothing, and a timeout that
\* fires rejects the request with SERVER_BUSY.
C25_NoAdmissionUnderPressure ==
  [][isUnderPressure =>
       \A r \in Reqs :
         /\ admits'[r] > admits[r] => via'[r] = "bypass"
         /\ (phase[r] = "new" /\ phase'[r] # "new" /\ via'[r] # "bypass") =>
              (phase'[r] = "queued" /\ InQueue(queue', r) /\ timer'[r])
         /\ (phase[r] = "queued" /\ timer[r] /\ ~timer'[r]) =>
              (resp'[r] = ServerBusy /\ phase'[r] = "rejected" /\ admits'[r] = 0)]_vars

\* C25 witness: under pressure and with no active request, one request is
\* waiting in the queue and another was rejected by its timeout.
C25_Witness ==
  /\ isUnderPressure /\ activeRequests = 0
  /\ \E r \in Reqs : phase[r] = "queued" /\ timer[r]
  /\ \E r \in Reqs : resp[r] = ServerBusy
  /\ \A r \in Reqs : admits[r] = 0

\* C22: the first request of a client after a rate-limit rejection, sent no
\* earlier than retryAfter seconds after it, is admitted by that limiter.
C22_RecoversAfterRetryAfter ==
  last.retry => (last.outcome = "next" /\ last.status = 0)

\* C22 witness: a client of a limiter that counts it was rejected, waited the
\* advertised time and was admitted as the first hit of a new window.
C22_Witness ==
  /\ last.retry /\ last.outcome = "next" /\ last.counted
  /\ hits = 1 /\ now >= lim.windowMs

\* C28 (as stated): after k logRequest calls with no cleanupOldData in between
\* (the real-time counters still count every call), the store holds k records
\* and getIPAnalytics(ip).totalRequests is the number of calls made for ip.
C28_OneRecordPerCall ==
  analytics.realTimeStats.currentRequests = Logged =>
    /\ Len(analytics.requests) = Logged
    /\ \A ip \in IPs :
         getIPAnalytics(analytics, ip).totalRequests = analytics.realTimeStats.topIPs[ip]

\* C30: cleanupOldData deletes every record older than one hour, keeps every
\* record younger than one hour and adds none, zeroes currentRequests and
\* blockedRequests, empties topIPs and topEndpoints, and leaves violations,
\* endpoints and hourlyStats as they were.
C30_CleanupFrame ==
  [][CleanupTick =>
       LET before == {analytics.requests[i] : i \in DOMAIN analytics.requests}
           after == {analytics'.requests[i] : i \in DOMAIN analytics'.requests}
           hourAgo == clock - OneHour
       IN /\ after \subseteq before
          /\ Len(analytics'.requests) = Cardinality(after)
          /\ \A e \in before :
               /\ e.value.timestamp < hourAgo => e \notin after
               /\ e.value.timestamp > hourAgo => e \in after
          /\ analytics'.realTimeStats.currentRequests = 0
          /\ analytics'.realTimeStats.blockedRequests = 0
          /\ \A ip \in IPs : analytics'.realTimeStats.topIPs[ip] = 0
          /\ \A e \in Endpoints : analytics'.realTimeStats.topEndpoints[e] = 0
          /\ analytics'.violations = analytics.violations
          /\ analytics'.endpoints = analytics.endpoints
          /\ analytics'.hourlyStats = analytics.hourlyStats]_vars

\* C30 witness: of two logged requests cleanupOldData has deleted the one older
\* than an hour and kept the younger one; the counters are back at zero while a
\* violation, the endpoint totals and an hourly bucket are still there.
C30_Witness ==
  /\ Logged = 2 /\ Len(analytics.requests) = 1
  /\ analytics.requests[1].value.timestamp > clock - OneHour
  /\ obs.first < clock - OneHour /\ obs.first # -1
  /\ analytics.realTimeStats.currentRequests = 0
  /\ \A ip \in IPs : analytics.realTimeStats.topIPs[ip] = 0
  /\ SumOver(analytics.violations, IPs) >= 1
  /\ analytics.hourlyStats # <<>>

\* The stored records of the last hour, as getAnalytics' filter reads them.
LastHour ==
  LET InHour(r) == r.timestamp >= clock - OneHour
  IN SelectSeq(Values(analytics.requests), InHour)

\* C29 (as stated): in a getAnalytics answer, summary.totalRequests is the
\* number of stored records of the last hour, summary.blockedRequests and
\* summary.activeIPs the number of blocked records and of distinct IPs among
\* them, however many records there are; recentRequests is the 20 newest of
\* them, newest first; topViolators lists the (at most 10) IPs with the
\* highest violation counts, in descending order.
C29_SummaryCountsLastHour ==
  obs.report # <<>> =>
    LET a == obs.report[1]
        IsBlocked(r) == r.blocked
        shown == a.recentRequests
        top == a.topViolators
        hour == LastHour
        oldestShown == IF shown = <<>> THEN 0 ELSE shown[Len(shown)].timestamp
    IN /\ a.summary.totalRequests = Len(hour)
       /\ a.summary.blockedRequests = Len(SelectSeq(hour, IsBlocked))
       /\ a.summary.activeIPs = Cardinality({hour[i].ip : i \in DOMAIN hour})
       /\ Len(shown) = Min(ShownLimit, Len(hour))
       /\ {shown[i] : i \in DOMAIN shown} \subseteq {hour[j] : j \in DOMAIN hour}
       /\ \A i \in DOMAIN shown : i < Len(shown) => shown[i].timestamp >= shown[i + 1].timestamp
       /\ {hour[j] : j \in {x \in DOMAIN hour : hour[x].timestamp > oldestShown}}
            \subseteq {shown[i] : i \in DOMAIN shown}
       /\ Len(top) = Min(ViolatorLimit, Cardinality({ip \in IPs : analytics.violations[ip] > 0}))
       /\ \A i \in DOMAIN top : top[i].violations = analytics.violations[top[i].ip]
       /\ \A i \in DOMAIN top : i < Len(top) => top[i].violations >= top[i + 1].violations

\* C26: a request the admission queue rejects with SERVER_BUSY is never passed
\* on (to the rate limiter, to its route), and its rejection leaves the
\* analytics store and the limiter's counter as they were: no record added,
\* violations, endpoint statistics and real-time counters unchanged.
C26_ServerBusyLeavesStore ==
  [][\A r \in Reqs :
       /\ resp'[r] = ServerBusy => admits'[r] = 0
       /\ (resp[r] = NoResp /\ resp'[r] = ServerBusy) =>
            /\ analytics' = analytics
            /\ hits' = hits /\ resetTime' = resetTime /\ last' = last]_vars

\* C26 witness: behind an analytics limiter that has logged and rejected
\* requests, a request was turned away with SERVER_BUSY.
C26_Witness ==
  /\ lim.factory = "analytics"
  /\ \E r \in Reqs : resp[r] = ServerBusy /\ admits[r] = 0
  /\ analytics.realTimeStats.currentRequests >= 2
  /\ SumOver(analytics.violations, IPs) >= 1

\* C27 (as stated): with the mounts of app.js, a request to /api/projects that
\* reaches the api limiter raises the client's counter by exactly one.
C27_ApiCountsOnce ==
  [][\A r \in Reqs :
       (lim.name = "api" /\ admits'[r] > admits[r]) => hits' = hits + 1]_vars

\* C36: provided due timers fire, no request stays queued forever (each
\* request arrives once, so from some point on the queue holds none), and every
\* request that has left the middleware was either admitted (next() called,
\* once) or rejected with SERVER_BUSY, never both and never neither, whatever
\* the pressure signal and the in-flight requests do.
C36_QueuedEventuallySettled ==
  /\ <>[](\A r \in Reqs : phase[r] # "queued")
  /\ [](\A r \in Reqs :
          /\ admits[r] <= 1
          /\ phase[r] \notin {"new", "queued"} =>
               (admits[r] = 1) # (resp[r] = ServerBusy))

\* C36 witness: of the requests that were queued, one was admitted by a drain
\* and one was rejected with SERVER_BUSY; none is queued any more.
C36_Witness ==
  /\ \E r \in Reqs : via[r] = "drain" /\ admits[r] = 1 /\ resp[r] = NoResp
  /\ \E r \in Reqs : resp[r] = ServerBusy /\ admits[r] = 0
  /\ queue = <<>>

\* C40 (as stated): isProcessing is true exactly while a request admitted by
\* processQueue is in flight, and at most one such request is in flight.
C40_SingleFlight ==
  LET drained == {r \in Reqs : phase[r] = "inflight" /\ via[r] = "drain"}
  IN /\ Cardinality(drained) <= 1
     /\ isProcessing <=> drained # {}

\* C34 (as stated): the flag is false before the first sample; after every
\* sample it equals (heap usage > 85 %); a sample that throws leaves the flag
\* false, and its error does not leave the monitor.
C34_FlagFollowsSample ==
  /\ ~isUnderPressure
  /\ [][/\ \A h \in HeapSamples :
            SampleTick(h) => isUnderPressure' = (h > maxMemoryPercent)
        /\ SampleThrows => (~isUnderPressure' /\ ~obs'.sampleError)]_vars

\* C37: for every IP, violations[ip] is at least the number of stored records
\* of that IP with blocked = true, so getIPAnalytics(ip).violations >=
\* getIPAnalytics(ip).blockedRequests, in every reachable state.
C37_ViolationsCoverBlocked ==
  \A ip \in IPs :
    LET view == getIPAnalytics(analytics, ip)
        OfIPBlocked(e) == e.value.ip = ip /\ e.value.blocked
    IN /\ analytics.violations[ip] >= Len(SelectSeq(analytics.requests, OfIPBlocked))
       /\ view.violations >= view.blockedRequests

\* C37 witness: an IP with two violations of which one blocked record is
\* still stored (the other was overwritten or evicted).
C37_Witness ==
  \E ip \in IPs :
    /\ analytics.violations[ip] = 2
    /\ getIPAnalytics(analytics, ip).blockedRequests = 1

\* C31: each updateHourlyStats call appends exactly one bucket, stamped with
\* the time of the call, whose requests, blocked and activeIPs are the counts
\* over the stored records of the trailing hour, and removes every bucket
\* older than 24 hours; right after the call every bucket is at most 24 hours
\* old and the buckets are in non-decreasing timestamp order.
C31_HourlyBucket ==
  [][MinuteTick =>
       LET old == analytics.hourlyStats
           new == analytics'.hourlyStats
           stored == analytics.requests
           inHour == {i \in DOMAIN stored : stored[i].value.timestamp >= clock - OneHour}
           Young(b) == b.timestamp >= clock - OneDay
       IN /\ new # <<>>
          /\ new[Len(new)] =
               [timestamp |-> clock,
                requests |-> Cardinality(inHour),
                blocked |-> Cardinality({i \in inHour : stored[i].value.blocked}),
                activeIPs |-> Cardinality({stored[i].value.ip : i \in inHour})]
          /\ SubSeq(new, 1, Len(new) - 1) = SelectSeq(old, Young)
          /\ \A i \in DOMAIN new : clock - new[i].timestamp <= OneDay
          /\ \A i, j \in DOMAIN new : i < j => new[i].timestamp <= new[j].timestamp]_vars

\* C31 witness: two buckets, the later one counting only the one record of
\* its trailing hour (a blocked one) while an older record is still stored.
C31_Witness ==
  /\ Len(analytics.hourlyStats) = 2
  /\ Len(analytics.requests) = 2
  /\ analytics.hourlyStats[1].requests = 1
  /\ analytics.hourlyStats[2] =
       [timestamp |-> clock, requests |-> 1, blocked |-> 1, activeIPs |-> 1]

\* The timeframes the traffic summary names.
NamedTimeframes == {"1h", "6h", "24h", "7d"}

\* The parts of a traffic summary other than the peak: the buckets kept, the
\* two totals and the average, for the response r to a query of timeframe tf.
SummaryTotalsRight(r, tf) ==
  LET hs == analytics.hourlyStats
      within == {i \in DOMAIN hs : hs[i].timestamp >= clock - TimeRange(tf)}
      Within(b) == b.timestamp >= clock - TimeRange(tf)
      total == SumOver([i \in within |-> hs[i].requests], within)
  IN /\ r.hourlyStats = SelectSeq(hs, Within)
     /\ r.summary.totalRequests = total
     /\ r.summary.totalBlocked = SumOver([i \in within |-> hs[i].blocked], within)
     /\ r.summary.averageRequestsPerHour =
          IF within = {} THEN 0 ELSE Round(total, Cardinality(within))

\* The peak of the response r is one of the buckets kept and no bucket kept
\* has more requests.
PeakIsBucket(r, tf) ==
  LET hs == analytics.hourlyStats
      within == {i \in DOMAIN hs : hs[i].timestamp >= clock - TimeRange(tf)}
  IN \E i \in within :
       /\ r.summary.peakTraffic = [requests |-> hs[i].requests, timestamp |-> hs[i].timestamp]
       /\ \A j \in within : hs[j].requests <= hs[i].requests

\* C32 (as stated): getTrafficSummary(timeframe) keeps exactly the buckets
\* within the timeframe, reports the sums of their requests and blocked counts,
\* the rounded average per bucket (0 when there are none), and as peakTraffic
\* a bucket with the maximum requests value among them (when there is one).
C32_SummaryOverWindow ==
  [][\A tf \in NamedTimeframes :
       TrafficSummary(tf) =>
         LET r == obs'.report[1]
             hs == analytics.hourlyStats
         IN /\ SummaryTotalsRight(r, tf)
            /\ (\E i \in DOMAIN hs : hs[i].timestamp >= clock - TimeRange(tf)) =>
                 PeakIsBucket(r, tf)]_vars

\* C32 (amended): the buckets kept, the totals and the average are as stated;
\* peakTraffic is a bucket with the maximum requests value among the buckets
\* kept when one of them has a request, and otherwise it is zero requests
\* stamped with the time of the query.
C32_SummaryPeakWhenTraffic ==
  [][\A tf \in NamedTimeframes :
       TrafficSummary(tf) =>
         LET r == obs'.report[1]
             hs == analytics.hourlyStats
         IN /\ SummaryTotalsRight(r, tf)
            /\ IF \E i \in DOMAIN hs : /\ hs[i].timestamp >= clock - TimeRange(tf)
                                       /\ hs[i].requests > 0
                 THEN PeakIsBucket(r, tf)
                 ELSE r.summary.peakTraffic = [requests |-> 0, timestamp |-> clock]]_vars

\* C32 witness: a one-hour summary that leaves out a stored bucket and whose
\* peak has traffic.
C32_Witness ==
  /\ obs.report # <<>>
  /\ obs.report[1].timeframe = "1h"
  /\ obs.report[1].hourlyStats # <<>>
  /\ Len(obs.report[1].hourlyStats) < Len(analytics.hourlyStats)
  /\ obs.report[1].summary.peakTraffic.requests > 0

\* The latest updateHourlyStats run was less than a minute ago: none is overdue.
RunsOnTime ==
  /\ analytics.hourlyStats # <<>>
  /\ clock - analytics.hourlyStats[Len(analytics.hourlyStats)].timestamp < OneMinute

\* C38: with updateHourlyStats running every minute, the totalRequests of a
\* traffic summary never exceeds the number of logRequest calls made during
\* its timeframe.
C38_TotalWithinCalls ==
  [][\A tf \in NamedTimeframes :
       (RunsOnTime /\ TrafficSummary(tf)) =>
         obs'.report[1].summary.totalRequests <=
           Cardinality({i \in DOMAIN obs.calls : obs.calls[i] >= clock - TimeRange(tf)})]_vars

\* A traffic summary without the timeframe it echoes.
Content(r) == [summary |-> r.summary, hourlyStats |-> r.hourlyStats]

\* C39 (as stated): at every query time, between two updateHourlyStats runs
\* a minute apart included, the summary for 7d has the same totals, bucket
\* list and peak as the summary for 24h.
C39_WeekEqualsDay ==
  [][(RunsOnTime /\ TrafficSummary("7d")) =>
       Content(obs'.report[1]) = Content(getTrafficSummary(analytics, clock, "24h"))]_vars

\* C39 (amended): the summary for 7d equals the summary for 24h when the query
\* is made at the time of the latest updateHourlyStats run.
C39_WeekEqualsDayAfterRun ==
  [][(/\ TrafficSummary("7d")
      /\ analytics.hourlyStats # <<>>
      /\ analytics.hourlyStats[Len(analytics.hourlyStats)].timestamp = clock) =>
       Content(obs'.report[1]) = Content(getTrafficSummary(analytics, clock, "24h"))]_vars

\* C39 witness: a 7d summary asked more than a day after the store was made,
\* at the time of the latest run, with traffic in it.
C39_Witness ==
  /\ obs.report # <<>>
  /\ obs.report[1].timeframe = "7d"
  /\ clock > OneDay
  /\ analytics.hourlyStats # <<>>
  /\ analytics.hourlyStats[Len(analytics.hourlyStats)].timestamp = clock
  /\ obs.report[1].summary.totalRequests > 0

\* C33: getBlockedIPs paginates the full list of IPs with a non-zero violation
\* count, in descending order of the count: pagination.total is the number of
\* such IPs, and page p with limit l holds the IPs of positions (p-1)*l to
\* p*l-1 of that list, each with its count.
C33_PaginatesAllViolators ==
  [][\A page \in Pages, limit \in Limits :
       BlockedIPs(page, limit) =>
         LET r == obs'.report[1]
             violating == {ip \in IPs : analytics.violations[ip] > 0}
             total == Cardinality(violating)
             shown == r.blockedIPs
             before == (page - 1) * limit
         IN /\ r.pagination.total = total
            /\ Len(shown) = Max(0, Min(limit, total - before))
            /\ \A i \in DOMAIN shown :
                 /\ shown[i].ip \in violating
                 /\ shown[i].violations = analytics.violations[shown[i].ip]
                 /\ Cardinality({ip \in violating :
                      analytics.violations[ip] > shown[i].violations}) <= before + i - 1
                 /\ Cardinality({ip \in violating :
                      analytics.violations[ip] >= shown[i].violations}) >= before + i
            /\ \A i, j \in DOMAIN shown : i < j => shown[i].ip # shown[j].ip]_vars

\* C35: toggleIPBlock leaves the analytics store, the rate-limit counters and
\* the admission queue unchanged, and a later request from a blocked IP is
\* decided as any other: admitted at once exactly when there is capacity, and
\* rejected by the limiter exactly when its hit exceeds the maximum.
C35_ToggleEnforcesNothing ==
  [][/\ \A ip \in Clients, action \in {"block", "unblock"} :
          ToggleIPBlock(ip, action) => UNCHANGED <<qvars, lvars, analytics, clock>>
     /\ \A r \in Reqs :
          (obs.toggle.action = "block" /\ obs.toggle.ip = "10.0.0.1") =>
            /\ AppArrive(r) => (admits'[r] = 1 <=> HasCapacity(activeRequests))
            /\ admits'[r] > admits[r] =>
                 /\ last'.outcome \in {"next", "rejected"}
                 /\ last'.outcome = "rejected" <=> OverLimit(hits', last'.max)]_vars

\* C35 witness: the IP of the requests was blocked before any of them arrived,
\* and requests from it were admitted and passed the limiter since.
C35_Witness ==
  /\ obs.toggle = [ip |-> "10.0.0.1", action |-> "block", early |-> TRUE]
  /\ \E r \in Reqs : admits[r] = 1 /\ via[r] = "drain"
  /\ last.outcome = "next"

====
